---- MODULE Spec2Model ----
(***************************************************************************)
(* A state-machine model of the Aadhaar analytics backend: the memoized    *)
(* data loaders (backend/data_loader.py), the analytics techniques         *)
(* (backend/analytics/*.py), the executive summary and the unified         *)
(* dispatcher (backend/routers/unified_analytics.py), served by one        *)
(* asyncio event loop (backend/main.py).                                   *)
(*                                                                         *)
(* Every endpoint is an `async def` whose body never suspends, so one      *)
(* request is one atomic step of the event loop.  A table is a pandas      *)
(* DataFrame: a set of column names and a sequence of rows, each row a     *)
(* function from column name to value.  The lru_cache of a loader holds a  *)
(* reference to the one DataFrame object it returned; references are       *)
(* indices into heap[t].                                                   *)
(***************************************************************************)
EXTENDS Integers, Sequences, FiniteSets, TLC

\* ------------------------------------------------------------------ bounds
MaxRows == 3
MaxWaiting == 2
MaxLoadExec == 2

\* ------------------------------------------------------------- data values
TableIds == {"enrolment", "demographic", "biometric"}

NaN == -1
NoneStr == "<NA>"
NaT == 0
Unknown == "Unknown"

AgeCols == <<"age_0_5", "age_5_17", "age_18_greater">>
EnrolCols == {"date", "state", "district", "pincode", "age_0_5", "age_5_17", "age_18_greater"}
DemoCols == {"date", "state", "demo_age_5_17"}
BioCols == {"date", "state", "bio_age_5_17"}
StringCols == {"state", "district"}

SeqToSet(s) == {s[i] : i \in 1..Len(s)}

RECURSIVE SumSeq(_)
SumSeq(s) == IF s = <<>> THEN 0 ELSE s[1] + SumSeq(Tail(s))

\* Days of the months before month m of 2025 (the dataset's year).
DaysBefore(m) == CASE m = 1 -> 0 [] m = 2 -> 31 [] m = 3 -> 59 [] OTHER -> 90
DaysIn(m) == CASE m = 1 -> 31 [] m = 2 -> 28 [] m = 3 -> 31 [] OTHER -> 0

\* pd.to_datetime(format='%d-%m-%Y', errors='coerce') on the text <<dd, mm>>
\* (<<0, 0>> for an empty cell): the day of the year, or NaT for a text that
\* is no date.
ParseDate(txt) ==
    IF txt[2] \in 1..3 /\ txt[1] \in 1..DaysIn(txt[2])
    THEN DaysBefore(txt[2]) + txt[1]
    ELSE NaT

MonthOf(d) == IF d <= 31 THEN 1 ELSE IF d <= 59 THEN 2 ELSE 3
DayOfMonth(d) == d - DaysBefore(MonthOf(d))
\* Series.dt.dayofweek: Monday = 0; 1 January 2025 is a Wednesday.
DayOfWeek(d) == (d + 1) % 7

\* A DataFrame.
Table(cols, rows) == [cols |-> cols, rows |-> rows]
NoFile == [present |-> FALSE, cols |-> {}, rows |-> <<>>]
CsvFile(cols, rows) == [present |-> TRUE, cols |-> cols, rows |-> rows]

Column(tbl, c) == [i \in 1..Len(tbl.rows) |-> tbl.rows[i][c]]

\* df[c] = f(row): the column is added to (or replaced in) the same object.
WithColumn(tbl, c, F(_)) ==
    Table(tbl.cols \cup {c},
          [i \in 1..Len(tbl.rows) |->
              [k \in tbl.cols \cup {c} |->
                  IF k = c THEN F(tbl.rows[i]) ELSE tbl.rows[i][k]]])

RECURSIVE InsertByDate(_, _)
InsertByDate(sorted, r) ==
    IF sorted = <<>> THEN <<r>>
    ELSE IF sorted[Len(sorted)]["date"] <= r["date"] THEN Append(sorted, r)
    ELSE Append(InsertByDate(SubSeq(sorted, 1, Len(sorted) - 1), r), sorted[Len(sorted)])

RECURSIVE SortByDate(_)
SortByDate(rows) ==
    IF rows = <<>> THEN <<>>
    ELSE InsertByDate(SortByDate(SubSeq(rows, 1, Len(rows) - 1)), rows[Len(rows)])

SelectRows(rows, P(_)) == SelectSeq(rows, P)

\* A preprocessing that fills nothing in.
FillNa_nothing(c, v) == v

FillNa(c, v) ==
    IF c = "date" THEN v
    ELSE IF c \in StringCols THEN (IF v = NoneStr THEN Unknown ELSE v)
    ELSE (IF v = NaN THEN 0 ELSE v)

\* ------------------------------------------------------- data_loader.py
load_csv_files(file) == [raised |-> ~file.present, df |-> Table(file.cols, file.rows)]

\* Lines 58-62: the date text parsed, rows without a date dropped, the rest
\* sorted by date; a frame without a date column keeps its rows.
DatedRows(df) ==
    LET parsed == [i \in 1..Len(df.rows) |->
                      [c \in df.cols |-> IF c = "date" THEN ParseDate(df.rows[i][c])
                                         ELSE df.rows[i][c]]]
        NotNaT(r) == r["date"] # NaT
    IN IF "date" \in df.cols THEN SortByDate(SelectRows(parsed, NotNaT)) ELSE df.rows

\* Lines 64-70: numeric gaps become 0, text gaps 'Unknown'.
FillRows(cols, rows) == [i \in 1..Len(rows) |-> [c \in cols |-> FillNa(c, rows[i][c])]]

preprocess_dataframe(df) == Table(df.cols, FillRows(df.cols, DatedRows(df)))

RECURSIVE RowSum(_, _)
RowSum(r, colset) ==
    IF colset = {} THEN 0
    ELSE LET c == CHOOSE x \in colset : TRUE IN r[c] + RowSum(r, colset \ {c})

TotalCols(t, df) ==
    CASE t = "enrolment" -> SeqToSet(AgeCols) \cap df.cols
      [] t = "demographic" -> {c \in df.cols : c \in {"demo_age_5_17"}}
      [] OTHER -> {c \in df.cols : c \in {"bio_age_5_17"}}

TotalName(t) ==
    CASE t = "enrolment" -> "total_enrolments"
      [] t = "demographic" -> "total_demo_updates"
      [] OTHER -> "total_bio_updates"

\* df[total] = df[existing columns].sum(axis=1).
AddTotal(t, df) ==
    LET Total(r) == RowSum(r, TotalCols(t, df))
    IN WithColumn(df, TotalName(t), Total)

\* The body of load_enrolment_data / load_demographic_data /
\* load_biometric_data, without the lru_cache around it.
LoadBody(t, file) ==
    IF load_csv_files(file).raised THEN [raised |-> TRUE, df |-> Table({}, <<>>)]
    ELSE [raised |-> FALSE, df |-> AddTotal(t, preprocess_dataframe(load_csv_files(file).df))]

\* ------------------------------------------------------------------ state
VARIABLES
    files,      \* [TableIds -> CsvFile | NoFile]: the Dataset/ folders on disk
    cache,      \* [TableIds -> Nat]: each loader's lru_cache entry (0: empty), a reference into heap
    allCache,   \* load_all_data's lru_cache entry: NoDict or [TableIds -> reference]
    heap,       \* [TableIds -> Seq(Table)]: the DataFrame objects the loaders created
    pristine,   \* [TableIds -> Seq(Table)]: history, each object as it was when its load returned
    loadExec,   \* [TableIds -> Nat]: history, executions of the loader body that returned a table
    handed,     \* [TableIds -> SUBSET Nat]: history, references the loader calls returned
    phase,      \* "startup" (lifespan pre-load pending) or "serving"
    waiting,    \* requests accepted by the server whose handler has not run yet
    cold,       \* [TableIds -> Nat]: history, waiting requests accepted while cache[t] was empty
    flight,     \* [TableIds -> Nat]: history, those of them since served whose handler was handed table t
    lastResp,   \* the last response sent (NoResp before the first)
    calc,       \* the last direct call of one of the analytics computations: [fn, arg, out]
    loop        \* the event loop seen statement by statement: [tasks, current]

vars == <<files, cache, allCache, heap, pristine, loadExec, handed, phase, waiting, cold, flight,
          lastResp, calc, loop>>

NoDict == [enrolment |-> 0, demographic |-> 0, biometric |-> 0]

\* The loaders' state, threaded through one handler; got is the reference each
\* loader call of this handler returned (0: not called).
Repo == [cache |-> cache, allCache |-> allCache, heap |-> heap, pristine |-> pristine,
         loadExec |-> loadExec, handed |-> handed, got |-> NoDict]

SetRepo(L) ==
    /\ cache' = L.cache
    /\ allCache' = L.allCache
    /\ heap' = L.heap
    /\ pristine' = L.pristine
    /\ loadExec' = L.loadExec
    /\ handed' = L.handed

\* A cache that never answers from its entry.
lru_cache_never_hit(entry) == FALSE

\* functools.lru_cache(maxsize=1) on a function of no arguments: a hit once a
\* call has returned; a call that raises stores nothing.
lru_cache_hit(entry) == entry # 0

\* A wrapper that hands the table to its caller and forgets to keep it.
lru_cache_store_forgets(L, t, body) ==
    IF body.raised
    THEN [L |-> L, raised |-> TRUE, ref |-> 0]
    ELSE [L |-> [L EXCEPT !.heap[t] = Append(@, body.df),
                          !.pristine[t] = Append(@, body.df),
                          !.loadExec[t] = @ + 1,
                          !.handed[t] = @ \cup {Len(L.heap[t]) + 1},
                          !.got[t] = Len(L.heap[t]) + 1],
          raised |-> FALSE, ref |-> Len(L.heap[t]) + 1]

\* A wrapper that memoizes a failed load as an empty table.
lru_cache_store_keeps_failure(L, t, body) ==
    [L |-> [L EXCEPT !.heap[t] = Append(@, body.df),
                     !.pristine[t] = Append(@, body.df),
                     !.loadExec[t] = IF body.raised THEN @ ELSE @ + 1,
                     !.cache[t] = Len(L.heap[t]) + 1,
                     !.handed[t] = IF body.raised THEN @ ELSE @ \cup {Len(L.heap[t]) + 1},
                     !.got[t] = IF body.raised THEN @ ELSE Len(L.heap[t]) + 1],
     raised |-> body.raised, ref |-> IF body.raised THEN 0 ELSE Len(L.heap[t]) + 1]

\* What the lru_cache wrapper does with the outcome of the wrapped body: an
\* exception passes through and nothing is stored; a returned table is stored
\* and handed to the caller.
lru_cache_store(L, t, body) ==
    IF body.raised
    THEN [L |-> L, raised |-> TRUE, ref |-> 0]
    ELSE [L |-> [L EXCEPT !.heap[t] = Append(@, body.df),
                          !.pristine[t] = Append(@, body.df),
                          !.loadExec[t] = @ + 1,
                          !.cache[t] = Len(L.heap[t]) + 1,
                          !.handed[t] = @ \cup {Len(L.heap[t]) + 1},
                          !.got[t] = Len(L.heap[t]) + 1],
          raised |-> FALSE, ref |-> Len(L.heap[t]) + 1]

\* load_enrolment_data() / load_demographic_data() / load_biometric_data().
LoadTable(L, t) ==
    IF lru_cache_hit(L.cache[t])
    THEN [L |-> [L EXCEPT !.handed[t] = @ \cup {L.cache[t]}, !.got[t] = L.cache[t]],
          raised |-> FALSE, ref |-> L.cache[t]]
    ELSE lru_cache_store(L, t, LoadBody(t, files[t]))

\* A sequence of loader calls, stopping at the first that raises.
RECURSIVE LoadSeq(_, _)
LoadRest(one, ts) ==
    IF one.raised THEN [L |-> one.L, raised |-> TRUE] ELSE LoadSeq(one.L, ts)

LoadSeq(L, ts) ==
    IF ts = <<>> THEN [L |-> L, raised |-> FALSE]
    ELSE LoadRest(LoadTable(L, ts[1]), Tail(ts))

\* Lines 121-127: the dict of the three tables the loaders returned.
LoadAllBody(ld) ==
    IF ld.raised THEN [L |-> ld.L, raised |-> TRUE, refs |-> NoDict]
    ELSE [L |-> [ld.L EXCEPT !.allCache = ld.L.got], raised |-> FALSE, refs |-> ld.L.got]

\* load_all_data(), itself under lru_cache.
LoadAll(L) ==
    IF lru_cache_hit(L.allCache["enrolment"])
    THEN [L |-> [L EXCEPT !.handed = [t \in TableIds |-> @[t] \cup {L.allCache[t]}],
                          !.got = L.allCache],
          raised |-> FALSE, refs |-> L.allCache]
    ELSE LoadAllBody(LoadSeq(L, <<"enrolment", "demographic", "biometric">>))

WithinLoadBound(L) == \A t \in TableIds : L.loadExec[t] <= MaxLoadExec

\* --------------------------------------------------- the Dataset/ folders
\* One CSV row of api_data_aadhar_enrolment; the date is the text dd-mm-2025.
ER(dd, mm, st, di, pin, a0, a5, a18) ==
    [date |-> <<dd, mm>>, state |-> st, district |-> di, pincode |-> pin,
     age_0_5 |-> a0, age_5_17 |-> a5, age_18_greater |-> a18]

Take(rows) == SubSeq(rows, 1, IF Len(rows) < MaxRows THEN Len(rows) ELSE MaxRows)

Restrict(rows, cols) == [i \in 1..Len(rows) |-> [c \in cols |-> rows[i][c]]]

\* Three states; the largest row also has the largest 18+ count and the
\* smallest 0-5 count.  Not in date order.
RowsThreeStates ==
    << ER(10, 2, "S2", "D2", 2, 1, 2, 3),
       ER(5, 1, "S1", "D1", 1, 2, 1, 1),
       ER(25, 1, "S3", "D3", 3, 0, 1, 9),
       ER(3, 3, "S1", "D1", 1, 1, 1, 1) >>

\* One state over three months; only the total tells the largest row apart.
RowsOneState ==
    << ER(1, 1, "S1", "D1", 1, 4, 1, 5),
       ER(1, 2, "S1", "D1", 1, 1, 3, 5),
       ER(1, 3, "S1", "D2", 1, 3, 6, 5),
       ER(2, 3, "S1", "D2", 1, 1, 1, 5) >>

\* A date that does not exist, empty cells, and two rows of one place and day.
RowsDirty ==
    << ER(31, 2, "S1", "D1", 1, 1, 1, 1),
       ER(7, 1, "S2", NoneStr, 2, NaN, 2, 2),
       ER(7, 1, "S2", NoneStr, 2, 3, 0, 1),
       ER(8, 1, NoneStr, "D1", 1, 1, NaN, 1) >>

RowsAllZero ==
    << ER(2, 1, "S1", "D1", 1, 0, 0, 0),
       ER(3, 1, "S2", "D1", 1, 0, 0, 0) >>

RowsNoDates ==
    << ER(0, 0, "S1", "D1", 1, 1, 1, 1),
       ER(30, 2, "S2", "D2", 2, 2, 2, 2) >>

EnrolmentFiles ==
    { NoFile,
      CsvFile(EnrolCols, <<>>),
      CsvFile(EnrolCols, Take(RowsThreeStates)),
      CsvFile(EnrolCols, Take(RowsOneState)),
      CsvFile(EnrolCols, Take(RowsDirty)),
      CsvFile(EnrolCols, Take(RowsAllZero)),
      CsvFile(EnrolCols, Take(RowsNoDates)),
      CsvFile(EnrolCols \ {"age_0_5", "age_5_17"},
              Restrict(Take(RowsThreeStates), EnrolCols \ {"age_0_5", "age_5_17"})),
      CsvFile(EnrolCols \ {"date"}, Restrict(Take(RowsThreeStates), EnrolCols \ {"date"})) }

DR(dd, mm, st, n) == [date |-> <<dd, mm>>, state |-> st, demo_age_5_17 |-> n]
BR(dd, mm, st, n) == [date |-> <<dd, mm>>, state |-> st, bio_age_5_17 |-> n]

RowsDemo == << DR(12, 2, "S2", 4), DR(6, 1, "S1", NaN), DR(5, 1, "S1", 2), DR(1, 3, "S3", 1) >>
RowsBio == << BR(9, 1, "S1", 3), BR(2, 2, "S3", 1), BR(3, 2, "S2", 2), BR(4, 2, "S2", 2) >>

DemographicFiles == { NoFile, CsvFile(DemoCols, <<>>), CsvFile(DemoCols, Take(RowsDemo)) }
BiometricFiles == { NoFile, CsvFile(BioCols, Take(RowsBio)) }

FileFamily(t) ==
    CASE t = "enrolment" -> EnrolmentFiles
      [] t = "demographic" -> DemographicFiles
      [] OTHER -> BiometricFiles

\* The complete delivery of a folder; also what appears when a missing folder
\* is filled in.
Delivered(t) ==
    CASE t = "enrolment" -> CsvFile(EnrolCols, Take(RowsThreeStates))
      [] t = "demographic" -> CsvFile(DemoCols, Take(RowsDemo))
      [] OTHER -> CsvFile(BioCols, Take(RowsBio))

\* The deployments considered: every enrolment folder beside complete
\* demographic and biometric folders, and every demographic and biometric
\* folder beside a complete enrolment folder.
Deployments ==
    {[enrolment |-> e, demographic |-> Delivered("demographic"), biometric |-> Delivered("biometric")] :
        e \in EnrolmentFiles}
    \cup {[enrolment |-> Delivered("enrolment"), demographic |-> d, biometric |-> b] :
        d \in DemographicFiles, b \in BiometricFiles}

\* ------------------------------------------------ analytics: common parts
\* The DataFrame a loader handed out, and an in-place change of it.
Frame(L, t) == L.heap[t][L.got[t]]
SetFrame(L, t, df) == [L EXCEPT !.heap[t][L.got[t]] = df]

Has(df, cs) == cs \subseteq df.cols
Empty(df) == Len(df.rows) = 0
Values(df, c) == {df.rows[i][c] : i \in 1..Len(df.rows)}
Keys(df, cs) == {[c \in cs |-> df.rows[i][c]] : i \in 1..Len(df.rows)}
Project(df, cs) == Restrict(df.rows, cs \cap df.cols)
ColumnSum(df, c) == SumSeq(Column(df, c))

\* df.groupby(cs)[c].sum(), for the group k.
GroupSum(df, cs, k, c) ==
    LET InGroup(r) == \A x \in cs : r[x] = k[x]
    IN SumSeq([i \in 1..Len(SelectRows(df.rows, InGroup)) |-> SelectRows(df.rows, InGroup)[i][c]])

GroupTotals(df, cs) == [k \in Keys(df, cs) |-> GroupSum(df, cs, k, "total_enrolments")]

Months(df) == {MonthOf(d) : d \in Values(df, "date")}
MonthSum(df, m, c) ==
    LET InMonth(r) == MonthOf(r["date"]) = m
    IN SumSeq([i \in 1..Len(SelectRows(df.rows, InMonth)) |-> SelectRows(df.rows, InMonth)[i][c]])

\* The keys every AnalyticsResponse must carry (utils.py).
RequiredKeys ==
    {"technique", "description", "formula", "calculation_steps", "intermediate_values",
     "final_result", "risk_classification", "decision", "visualization_data"}

RiskLevels == {"LOW", "MEDIUM", "HIGH", "INFO"}

\* What a technique returned: its top-level keys, the paths present under
\* intermediate_values / final_result / visualization_data, the labels its
\* return path can put in risk_classification, and its final_result: the data
\* the figures are computed from and, where the computation draws random
\* numbers, the figure that depends on the draw.
Final(name, data, pick) == [of |-> name, data |-> data, pick |-> pick]
Result(name, extra, paths, risk, final) ==
    [technique |-> name, top |-> RequiredKeys \cup extra, paths |-> paths, risk |-> risk, final |-> final]
ErrorResult(name) ==
    [technique |-> name, top |-> {"error"}, paths |-> {}, risk |-> {}, final |-> Final(name, <<>>, "")]
NoRes == [technique |-> "", top |-> {}, paths |-> {}, risk |-> {}, final |-> Final("", <<>>, "")]

\* The ways a call can end: it raises, it returns, or (where the outcome turns
\* on NaN and empty-array behaviour that differs between library versions) either.
Outcome(L, raised, res) == [L |-> L, raised |-> raised, res |-> res]
Raises(L) == {Outcome(L, TRUE, NoRes)}
Returns(L, res) == {Outcome(L, FALSE, res)}
Either(L, res) == Raises(L) \cup Returns(L, res)

\* ------------------------------------------------------ analytics/fraud.py

benford_law_analysis(L) ==
    UNION {
      LET df == Frame(ld.L, "enrolment")
          res == Result("benford_law_analysis", {},
                        {"intermediate_values.observed_frequencies",
                         "intermediate_values.expected_frequencies",
                         "intermediate_values.sample_size", "final_result.chi_square",
                         "final_result.p_value", "final_result.degrees_of_freedom",
                         "visualization_data.labels", "visualization_data.observed",
                         "visualization_data.expected"},
                        {"LOW", "MEDIUM", "HIGH"}, Final("benford_law_analysis", <<Project(df, {"total_enrolments"})>>, ""))
      IN IF ld.raised THEN Raises(ld.L)
         ELSE IF \A i \in 1..Len(df.rows) : df.rows[i]["total_enrolments"] < 1 THEN Raises(ld.L)
         ELSE Returns(ld.L, res)
      : ld \in {LoadSeq(L, <<"enrolment">>)} }

outlier_detection(L) ==
    UNION {
      LET df == Frame(ld.L, "enrolment")
          res == Result("outlier_detection", {"flagged_districts"},
                        {"intermediate_values.z_score_stats.mean",
                         "intermediate_values.z_score_stats.std",
                         "intermediate_values.z_score_stats.threshold",
                         "intermediate_values.iqr_stats.q1", "intermediate_values.iqr_stats.q3",
                         "intermediate_values.iqr_stats.iqr", "intermediate_values.iqr_bounds.lower",
                         "intermediate_values.iqr_bounds.upper", "final_result.total_districts",
                         "final_result.z_score_outliers", "final_result.iqr_outliers",
                         "final_result.confirmed_outliers", "final_result.outlier_rate_percent",
                         "visualization_data.histogram.values",
                         "visualization_data.histogram.bin_edges", "visualization_data.bounds.lower",
                         "visualization_data.bounds.upper", "visualization_data.bounds.mean"},
                        {"LOW", "MEDIUM", "HIGH"}, Final("outlier_detection", <<Project(df, {"state", "district", "total_enrolments"})>>, ""))
      IN IF ld.raised THEN Raises(ld.L)
         ELSE IF Empty(df) THEN Either(ld.L, res)
         ELSE Returns(ld.L, res)
      : ld \in {LoadSeq(L, <<"enrolment">>)} }

\* Lines 280-283: four columns assigned on the frame the loader returned.
pattern_recognition_columns(df) ==
    LET Dow(r) == DayOfWeek(r["date"])
        Dom(r) == DayOfMonth(r["date"])
        Weekend(r) == r["day_of_week"] \in {5, 6}
        MonthEnd(r) == r["day_of_month"] >= 25
    IN IF ~Has(df, {"date"}) THEN [raised |-> TRUE, df |-> df]
       ELSE [raised |-> FALSE,
             df |-> WithColumn(WithColumn(WithColumn(WithColumn(df,
                        "day_of_week", Dow), "day_of_month", Dom),
                        "is_weekend", Weekend), "is_month_end", MonthEnd)]

pattern_recognition(L) ==
    UNION {
      LET m == pattern_recognition_columns(Frame(ld.L, "enrolment"))
          df == m.df
          L2 == SetFrame(ld.L, "enrolment", df)
          res == Result("pattern_recognition", {"patterns"},
                        {"intermediate_values.overall_mean", "intermediate_values.weekday_mean",
                         "intermediate_values.weekend_mean", "intermediate_values.weekend_ratio",
                         "intermediate_values.month_end_surge_percent",
                         "final_result.patterns_detected", "final_result.day_of_week_variance",
                         "visualization_data.day_of_week.labels",
                         "visualization_data.day_of_week.values",
                         "visualization_data.day_of_week.deviations"},
                        {"LOW", "MEDIUM", "HIGH"}, Final("pattern_recognition", <<Project(df, {"date", "total_enrolments"})>>, ""))
      IN IF ld.raised THEN Raises(ld.L)
         ELSE IF m.raised THEN Raises(L2)
         ELSE IF Empty(df) THEN Either(L2, res)
         ELSE Returns(L2, res)
      : ld \in {LoadSeq(L, <<"enrolment">>)} }

\* Lines 418-432: location_key, then date_location_key, then value_signature,
\* each assigned on the frame the loader returned; a missing 'date' raises
\* between the first and the second.  keyed is the frame before line 432,
\* whose apply(axis=1) on a frame of no rows may refuse the assignment.
duplicate_detection_columns(df) ==
    LET InDf(c) == c \in df.cols
        available_cols == SelectSeq(<<"total_enrolments", "age_0_5", "age_5_17", "age_18_greater">>, InDf)
        Loc(r) == <<r["state"], r["district"], r["pincode"]>>
        DateLoc(r) == <<r["date"], r["location_key"]>>
        Sig(r) == [i \in 1..Len(available_cols) |-> r[available_cols[i]]]
        d1 == WithColumn(df, "location_key", Loc)
        d2 == WithColumn(d1, "date_location_key", DateLoc)
    IN IF ~Has(df, {"state", "district", "pincode"}) THEN [raised |-> TRUE, df |-> df, keyed |-> df]
       ELSE IF ~Has(df, {"date"}) THEN [raised |-> TRUE, df |-> d1, keyed |-> d1]
       ELSE [raised |-> FALSE, df |-> WithColumn(d2, "value_signature", Sig), keyed |-> d2]

duplicate_detection(L) ==
    UNION {
      LET m == duplicate_detection_columns(Frame(ld.L, "enrolment"))
          df == m.df
          L2 == SetFrame(ld.L, "enrolment", df)
          res == Result("duplicate_detection", {"suspicious_findings"},
                        {"intermediate_values.total_records", "intermediate_values.unique_locations",
                         "intermediate_values.multi_entry_cases",
                         "intermediate_values.multi_entry_records",
                         "intermediate_values.exact_duplicate_sets",
                         "final_result.duplicate_rate_percent", "final_result.suspicious_values",
                         "final_result.integrity_score",
                         "visualization_data.duplicate_breakdown.labels",
                         "visualization_data.duplicate_breakdown.values"},
                        {"LOW", "MEDIUM", "HIGH"}, Final("duplicate_detection", <<Project(df, {"date", "state", "district", "pincode", "total_enrolments", "age_0_5", "age_5_17", "age_18_greater"})>>, ""))
      IN IF ld.raised THEN Raises(ld.L)
         ELSE IF m.raised THEN Raises(L2)
         ELSE IF Empty(df) THEN Raises(SetFrame(ld.L, "enrolment", m.keyed)) \cup Returns(L2, res)
         ELSE Returns(L2, res)
      : ld \in {LoadSeq(L, <<"enrolment">>)} }

forensic_analytics(L) ==
    UNION {
      LET df == Frame(ld.L, "enrolment")
          res == Result("forensic_analytics", {"recommendations"},
                        {"intermediate_values.completeness_score",
                         "intermediate_values.range_validity_score",
                         "intermediate_values.temporal_score", "intermediate_values.coverage_score",
                         "intermediate_values.normality_score", "intermediate_values.weights",
                         "final_result.overall_integrity_score",
                         "final_result.total_records_analyzed", "final_result.states_covered",
                         "final_result.date_range_days", "visualization_data.radar_chart.labels",
                         "visualization_data.radar_chart.values", "visualization_data.overall_gauge"},
                        {"LOW", "MEDIUM", "HIGH"}, Final("forensic_analytics", <<Project(df, {"date", "state", "pincode", "total_enrolments", "age_0_5", "age_5_17", "age_18_greater"})>>, ""))
      IN IF ld.raised THEN Raises(ld.L)
         ELSE IF ~Has(df, {"date"}) THEN Raises(ld.L)
         ELSE IF Empty(df) THEN Either(ld.L, res)
         ELSE Returns(ld.L, res)
      : ld \in {LoadSeq(L, <<"enrolment">>)} }

\* ------------------------------------------------- analytics/geographic.py
\* One feature vector per state: the inputs of the k-means of line 58.
StateVectors(df) ==
    {[c \in {"total_enrolments", "age_0_5", "age_5_17", "age_18_greater"} |->
         GroupSum(df, {"state"}, k, c)] : k \in Keys(df, {"state"})}

cluster_analysis(L) ==
    UNION {
      LET df == Frame(ld.L, "enrolment")
          res == Result("cluster_analysis", {"clusters"},
                        {"intermediate_values.num_clusters", "intermediate_values.inertia",
                         "intermediate_values.feature_means", "intermediate_values.feature_stds",
                         "final_result.clusters_formed", "final_result.segmentation_quality",
                         "final_result.largest_cluster_size", "visualization_data.scatter.x",
                         "visualization_data.scatter.y", "visualization_data.scatter.labels",
                         "visualization_data.scatter.colors"},
                        {"LOW"}, Final("cluster_analysis", <<Project(df, {"state", "total_enrolments", "age_0_5", "age_5_17", "age_18_greater"})>>, ""))
      IN IF ld.raised THEN Raises(ld.L)
         ELSE IF ~Has(df, {"age_0_5", "age_5_17", "age_18_greater"}) THEN Raises(ld.L)
         ELSE IF Cardinality(Values(df, "state")) < 3 THEN Returns(ld.L, ErrorResult("cluster_analysis"))
         ELSE IF Cardinality(StateVectors(df)) < 3 THEN Either(ld.L, res)
         ELSE Returns(ld.L, res)
      : ld \in {LoadSeq(L, <<"enrolment">>)} }

hotspot_analysis(L) ==
    UNION {
      LET df == Frame(ld.L, "enrolment")
          res == Result("hotspot_analysis", {"top_hotspots"},
                        {"intermediate_values.global_mean", "intermediate_values.global_std",
                         "intermediate_values.max_z_score", "intermediate_values.hhi_index",
                         "final_result.hotspot_count", "final_result.coldspot_count",
                         "final_result.concentration_level", "final_result.top_hotspot",
                         "final_result.total_districts", "final_result.global_mean",
                         "visualization_data.map_data.hotspots"},
                        {"LOW", "MEDIUM"}, Final("hotspot_analysis", <<Project(df, {"state", "district", "total_enrolments"})>>, ""))
      IN IF ld.raised THEN Raises(ld.L)
         ELSE IF Empty(df) THEN Either(ld.L, res)
         ELSE Returns(ld.L, res)
      : ld \in {LoadSeq(L, <<"enrolment">>)} }

\* Line 278: the month column assigned on the frame the loader returned, after
\* the age columns (lines 267-269) and the date column were read.
cohort_analysis_columns(df) ==
    LET Month(r) == MonthOf(r["date"])
    IN IF ~Has(df, {"age_0_5", "age_5_17", "age_18_greater", "date"}) THEN [raised |-> TRUE, df |-> df]
       ELSE [raised |-> FALSE, df |-> WithColumn(df, "month", Month)]

\* Lines 281-284: avg_growth is NaN for a cohort whose monthly sums give no
\* defined percentage change (fewer than two months, or 0 after 0); idxmax()
\* of an all-NaN series is no column name and the .replace() on it raises.
AllGrowthUndefined(df) ==
    LET ms == Months(df)
        Follows(a, b) == a < b /\ ~(\E x \in ms : a < x /\ x < b)
    IN \A c \in {"age_0_5", "age_5_17", "age_18_greater"} :
          \A a, b \in ms : Follows(a, b) => MonthSum(df, a, c) = 0 /\ MonthSum(df, b, c) = 0

cohort_analysis(L) ==
    UNION {
      LET m == cohort_analysis_columns(Frame(ld.L, "enrolment"))
          df == m.df
          L2 == SetFrame(ld.L, "enrolment", df)
          res == Result("cohort_analysis", {},
                        {"intermediate_values.total_volume", "intermediate_values.cohort_totals",
                         "intermediate_values.shares", "intermediate_values.cohort_count",
                         "final_result.dominant_cohort", "final_result.fastest_growing_cohort",
                         "final_result.child_enrolment_percent",
                         "visualization_data.pie_chart.labels", "visualization_data.pie_chart.values"},
                        {"LOW"}, Final("cohort_analysis", <<Project(df, {"date", "age_0_5", "age_5_17", "age_18_greater"})>>, ""))
      IN IF ld.raised THEN Raises(ld.L)
         ELSE IF m.raised THEN Raises(L2)
         ELSE IF AllGrowthUndefined(df) THEN Raises(L2)
         ELSE Returns(L2, res)
      : ld \in {LoadSeq(L, <<"enrolment">>)} }

\* A constant finding; no table is loaded.
gender_parity_analysis(L) ==
    Returns(L, Result("gender_parity_analysis", {},
                      {"final_result.status", "final_result.recommendation"},
                      {"HIGH"}, Final("gender_parity_analysis", <<>>, "")))

\* Lines 404-407: only states with at least three months enter gaps.
StatesWithThreeMonths(df) ==
    {s \in Values(df, "state") :
        Cardinality({MonthOf(df.rows[i]["date"]) : i \in {j \in 1..Len(df.rows) : df.rows[j]["state"] = s}}) >= 3}

gap_analysis(L) ==
    UNION {
      LET df == Frame(ld.L, "enrolment")
          res == Result("gap_analysis", {},
                        {"intermediate_values.states_analyzed", "intermediate_values.avg_saturation",
                         "final_result.potential_saturation_states", "final_result.highest_gap_state",
                         "visualization_data.bar_chart.labels", "visualization_data.bar_chart.values"},
                        {"MEDIUM"}, Final("gap_analysis", <<Project(df, {"state", "date", "total_enrolments"})>>, ""))
      IN IF ld.raised THEN Raises(ld.L)
         ELSE IF ~Has(df, {"date"}) \/ StatesWithThreeMonths(df) = {} THEN Raises(ld.L)
         ELSE Returns(ld.L, res)
      : ld \in {LoadSeq(L, <<"enrolment">>)} }

\* ------------------------------------------------- analytics/operations.py

queue_theory_analysis(L) ==
    UNION {
      LET df == Frame(ld.L, "enrolment")
          res == Result("queue_theory_analysis", {"bottlenecks"},
                        {"intermediate_values.days_analyzed", "intermediate_values.total_enrolments",
                         "intermediate_values.min_daily", "intermediate_values.max_daily",
                         "intermediate_values.std_daily", "intermediate_values.service_intensity",
                         "final_result.arrival_rate_lambda", "final_result.processing_capacity_mu",
                         "final_result.utilization_rho", "final_result.prob_queue_p1",
                         "final_result.avg_wait_time_wq", "final_result.avg_queue_length_lq",
                         "final_result.bottleneck_states", "visualization_data.daily_trend.dates",
                         "visualization_data.daily_trend.values",
                         "visualization_data.daily_trend.capacity_line",
                         "visualization_data.utilization_gauge"},
                        {"LOW", "MEDIUM", "HIGH"}, Final("queue_theory_analysis", <<Project(df, {"date", "state", "total_enrolments"})>>, ""))
      IN IF ld.raised THEN Raises(ld.L)
         ELSE IF ~Has(df, {"date"}) \/ Empty(df) THEN Raises(ld.L)
         ELSE Returns(ld.L, res)
      : ld \in {LoadSeq(L, <<"enrolment">>)} }

load_balance_analysis(L) ==
    UNION {
      LET df == Frame(ld.L, "enrolment")
          res == Result("load_balance_analysis", {"state_distribution"},
                        {"intermediate_values.total_load", "intermediate_values.mean_load",
                         "intermediate_values.std_load",
                         "intermediate_values.coefficient_of_variation",
                         "intermediate_values.gini_coefficient", "final_result.balance_score",
                         "final_result.overloaded_states", "final_result.underloaded_states",
                         "final_result.balanced_states", "visualization_data.pie_chart.labels",
                         "visualization_data.pie_chart.values", "visualization_data.balance_gauge"},
                        {"LOW", "MEDIUM", "HIGH"}, Final("load_balance_analysis", <<Project(df, {"state", "total_enrolments"})>>, ""))
      IN IF ld.raised THEN Raises(ld.L)
         ELSE IF Empty(df) THEN Either(ld.L, res)
         ELSE Returns(ld.L, res)
      : ld \in {LoadSeq(L, <<"enrolment">>)} }

throughput_analysis(L) ==
    UNION {
      LET df == Frame(ld.L, "enrolment")
          res == Result("throughput_analysis", {},
                        {"intermediate_values.total_days", "intermediate_values.total_processed",
                         "intermediate_values.min_daily", "intermediate_values.max_daily",
                         "intermediate_values.std_daily", "final_result.current_throughput",
                         "final_result.historical_throughput", "final_result.peak_throughput",
                         "final_result.trend_percent", "final_result.low_performance_days",
                         "visualization_data.time_series.dates",
                         "visualization_data.time_series.values",
                         "visualization_data.time_series.avg_line",
                         "visualization_data.percentiles.p50", "visualization_data.percentiles.p90",
                         "visualization_data.percentiles.p99"},
                        {"LOW", "MEDIUM", "HIGH"}, Final("throughput_analysis", <<Project(df, {"date", "total_enrolments"})>>, ""))
      IN IF ld.raised THEN Raises(ld.L)
         ELSE IF ~Has(df, {"date"}) \/ Empty(df) THEN Raises(ld.L)
         ELSE Returns(ld.L, res)
      : ld \in {LoadSeq(L, <<"enrolment">>)} }

yield_analysis(L) ==
    UNION {
      LET df == Frame(ld.L, "enrolment")
          res == Result("yield_analysis", {"state_breakdown"},
                        {"intermediate_values.total_enrolments",
                         "intermediate_values.total_demo_updates",
                         "intermediate_values.total_bio_updates",
                         "intermediate_values.avg_state_yield", "final_result.demo_yield_percent",
                         "final_result.bio_yield_percent", "final_result.yield_score",
                         "final_result.high_yield_states", "final_result.low_yield_states",
                         "visualization_data.comparison_bar.labels",
                         "visualization_data.comparison_bar.values",
                         "visualization_data.yield_percentages.demo",
                         "visualization_data.yield_percentages.bio"},
                        {"LOW", "MEDIUM", "HIGH"}, Final("yield_analysis", <<Project(df, {"state", "total_enrolments"}),
                                Project(Frame(ld.L, "demographic"), {"state", "total_demo_updates"}),
                              Project(Frame(ld.L, "biometric"), {"state", "total_bio_updates"})>>, ""))
      IN IF ld.raised THEN Raises(ld.L)
         ELSE IF Empty(df) THEN Either(ld.L, res)
         ELSE Returns(ld.L, res)
      : ld \in {LoadSeq(L, <<"enrolment", "demographic", "biometric">>)} }

pareto_analysis(L) ==
    UNION {
      LET df == Frame(ld.L, "enrolment")
          res == Result("pareto_analysis", {"vital_few_states"},
                        {"intermediate_values.total_states", "intermediate_values.total_districts",
                         "intermediate_values.total_volume", "intermediate_values.top_5_states_share",
                         "final_result.states_for_80_percent", "final_result.state_percentage",
                         "final_result.districts_for_80_percent", "final_result.district_percentage",
                         "final_result.pareto_ratio_states", "final_result.pareto_ratio_districts",
                         "visualization_data.pareto_chart.labels",
                         "visualization_data.pareto_chart.values",
                         "visualization_data.pareto_chart.cumulative",
                         "visualization_data.threshold_line"},
                        {"LOW", "MEDIUM", "HIGH"}, Final("pareto_analysis", <<Project(df, {"state", "district", "total_enrolments"})>>, ""))
      IN IF ld.raised THEN Raises(ld.L)
         ELSE IF Empty(df) THEN Raises(ld.L)
         ELSE Returns(ld.L, res)
      : ld \in {LoadSeq(L, <<"enrolment">>)} }

\* ------------------------------------------------- analytics/predictive.py

time_series_forecast(L) ==
    UNION {
      LET df == Frame(ld.L, "enrolment")
          res == Result("time_series_forecast", {"forecast"},
                        {"intermediate_values.trend_intercept", "intermediate_values.trend_slope",
                         "intermediate_values.trend_direction",
                         "intermediate_values.seasonal_factors", "intermediate_values.residual_std",
                         "final_result.r_squared", "final_result.months_analyzed",
                         "final_result.forecast_total", "final_result.forecast_avg",
                         "visualization_data.historical.months",
                         "visualization_data.historical.values",
                         "visualization_data.historical.trend", "visualization_data.forecast.months",
                         "visualization_data.forecast.values", "visualization_data.forecast.ci_lower",
                         "visualization_data.forecast.ci_upper"},
                        {"LOW", "MEDIUM", "HIGH"}, Final("time_series_forecast", <<Project(df, {"date", "total_enrolments"})>>, ""))
      IN IF ld.raised THEN Raises(ld.L)
         ELSE IF TRUE THEN Raises(ld.L)
         ELSE Returns(ld.L, res)
      : ld \in {LoadSeq(L, <<"enrolment">>)} }

regression_analysis(L) ==
    UNION {
      LET df == Frame(ld.L, "enrolment")
          res == Result("regression_analysis", {"outlier_states"},
                        {"intermediate_values.sample_size", "intermediate_values.num_features",
                         "intermediate_values.intercept", "intermediate_values.coefficients",
                         "intermediate_values.residual_stats", "final_result.r_squared",
                         "final_result.adjusted_r_squared", "final_result.feature_importance_pct",
                         "final_result.outlier_states",
                         "visualization_data.actual_vs_predicted.actual",
                         "visualization_data.actual_vs_predicted.predicted",
                         "visualization_data.actual_vs_predicted.states",
                         "visualization_data.feature_importance.labels",
                         "visualization_data.feature_importance.values"},
                        {"LOW", "MEDIUM", "HIGH"}, Final("regression_analysis", <<Project(df, {"state", "total_enrolments", "age_0_5", "age_5_17", "age_18_greater"})>>, ""))
      IN IF ld.raised THEN Raises(ld.L)
         ELSE IF Cardinality(SeqToSet(AgeCols) \cap df.cols) >= 2 /\ Empty(df) THEN Raises(ld.L)
         ELSE IF Cardinality(SeqToSet(AgeCols) \cap df.cols) < 2 THEN Returns(ld.L, ErrorResult("regression_analysis"))
         ELSE Returns(ld.L, res)
      : ld \in {LoadSeq(L, <<"enrolment">>)} }

scenario_planning(L) ==
    UNION {
      LET df == Frame(ld.L, "enrolment")
          res == Result("scenario_planning", {"scenarios"},
                        {"intermediate_values.current_monthly_avg",
                         "intermediate_values.historical_avg_growth",
                         "intermediate_values.growth_std_dev", "intermediate_values.months_ahead",
                         "final_result.baseline_12month_total",
                         "final_result.optimistic_12month_total",
                         "final_result.pessimistic_12month_total",
                         "final_result.scenario_variance_percent",
                         "visualization_data.scenario_lines.months",
                         "visualization_data.scenario_lines.pessimistic",
                         "visualization_data.scenario_lines.baseline",
                         "visualization_data.scenario_lines.optimistic",
                         "visualization_data.scenario_lines.aggressive"},
                        {"LOW", "MEDIUM", "HIGH"}, Final("scenario_planning", <<Project(df, {"date", "total_enrolments"})>>, ""))
      IN IF ld.raised THEN Raises(ld.L)
         ELSE IF ~Has(df, {"date"}) \/ ColumnSum(df, "total_enrolments") = 0 THEN Raises(ld.L)
         ELSE IF Cardinality(Months(df)) >= 2 THEN Either(ld.L, res)
         ELSE Returns(ld.L, res)
      : ld \in {LoadSeq(L, <<"enrolment">>)} }

survival_analysis(L) ==
    UNION {
      LET df == Frame(ld.L, "enrolment")
          res == Result("survival_analysis", {},
                        {"intermediate_values.states_analyzed", "intermediate_values.time_points",
                         "intermediate_values.events_observed", "intermediate_values.censored",
                         "final_result.median_survival_days", "final_result.mean_duration_days",
                         "final_result.std_duration_days", "final_result.initial_survival_rate",
                         "final_result.final_survival_rate",
                         "visualization_data.survival_curve.times",
                         "visualization_data.survival_curve.survival",
                         "visualization_data.survival_curve.at_risk",
                         "visualization_data.median_line"},
                        {"LOW", "MEDIUM", "HIGH"}, Final("survival_analysis", <<Project(df, {"date", "state"}),
                              Project(Frame(ld.L, "demographic"), {"date", "state"})>>, ""))
      IN IF ld.raised THEN Raises(ld.L)
         ELSE IF ~Has(df, {"date"}) \/ ~Has(Frame(ld.L, "demographic"), {"date"}) THEN Raises(ld.L)
         ELSE IF Empty(df) \/ Empty(Frame(ld.L, "demographic")) THEN Either(ld.L, res)
         ELSE Returns(ld.L, res)
      : ld \in {LoadSeq(L, <<"enrolment", "demographic">>)} }

\* ---------------------------------------------------- analytics/quality.py

peer_benchmarking(L) ==
    UNION {
      LET df == Frame(ld.L, "enrolment")
          res == Result("peer_benchmarking", {"risk_or_insight"},
                        {"intermediate_values.national_mean", "intermediate_values.national_std",
                         "final_result.top_state", "final_result.bottom_state", "final_result.spread",
                         "visualization_data.labels", "visualization_data.values",
                         "visualization_data.average_line"},
                        {"INFO"}, Final("peer_benchmarking", <<Project(df, {"state", "total_enrolments"})>>, ""))
      IN IF ld.raised THEN Raises(ld.L)
         ELSE IF Empty(df) THEN Raises(ld.L)
         ELSE Returns(ld.L, res)
      : ld \in {LoadSeq(L, <<"enrolment">>)} }

\* Line 88: pd.qcut(totals, 10) raises when two of its eleven bin edges
\* coincide: fewer than two districts, or two districts with equal totals.
DecileEdgesCoincide(df) ==
    LET totals == GroupTotals(df, {"district"})
    IN \/ Cardinality(DOMAIN totals) < 2
       \/ Cardinality({totals[k] : k \in DOMAIN totals}) < Cardinality(DOMAIN totals)

decile_analysis(L) ==
    UNION {
      LET df == Frame(ld.L, "enrolment")
          res == Result("decile_analysis", {"risk_or_insight"},
                        {"intermediate_values.gini_proxy", "intermediate_values.total_volume",
                         "final_result.top_decile_share", "final_result.bottom_decile_share",
                         "visualization_data.deciles", "visualization_data.volume_share",
                         "visualization_data.avg_volume"},
                        {"LOW", "MEDIUM"}, Final("decile_analysis", <<Project(df, {"district", "total_enrolments"})>>, ""))
      IN IF ld.raised THEN Raises(ld.L)
         ELSE IF DecileEdgesCoincide(df) THEN Raises(ld.L)
         ELSE Returns(ld.L, res)
      : ld \in {LoadSeq(L, <<"enrolment">>)} }

\* ------------------------------------------------ analytics/descriptive.py
\* Line 93 names `null`, which Python does not define: every call raises.

univariate_analysis(L) ==
    UNION {
      LET df == Frame(ld.L, "enrolment")
          res == Result("univariate_analysis", {"risk_or_insight"},
                        {"intermediate_values.sum", "intermediate_values.count",
                         "intermediate_values.variance", "final_result.mean", "final_result.median",
                         "final_result.std_dev", "final_result.skewness",
                         "visualization_data.histogram.values",
                         "visualization_data.histogram.bin_edges", "visualization_data.box_plot"},
                        {"INFO"}, Final("univariate_analysis", <<Project(df, {"total_enrolments"})>>, ""))
      IN IF ld.raised THEN Raises(ld.L)
         ELSE IF TRUE THEN Raises(ld.L)
         ELSE Returns(ld.L, res)
      : ld \in {LoadSeq(L, <<"enrolment">>)} }

\* Line 155 indexes the 30-day rolling trend at -30 and at 30.
window_size == 30

time_series_decomposition(L) ==
    UNION {
      LET df == Frame(ld.L, "enrolment")
          res == Result("time_series_decomposition", {"risk_or_insight"},
                        {"intermediate_values.trend_mean",
                         "intermediate_values.seasonality_amplitude",
                         "intermediate_values.residual_noise", "final_result.trend_direction",
                         "final_result.strongest_seasonality_day", "visualization_data.dates",
                         "visualization_data.observed", "visualization_data.trend",
                         "visualization_data.seasonality", "visualization_data.residuals"},
                        {"LOW"}, Final("time_series_decomposition", <<Project(df, {"date", "total_enrolments"})>>, ""))
      IN IF ld.raised THEN Raises(ld.L)
         ELSE IF ~Has(df, {"date"}) \/ Cardinality(Values(df, "date")) <= window_size THEN Raises(ld.L)
         ELSE Returns(ld.L, res)
      : ld \in {LoadSeq(L, <<"enrolment">>)} }

\* -------------------------------------------------- analytics/advanced.py
RECURSIVE InsertInt(_, _)
InsertInt(sorted, x) ==
    IF sorted = <<>> THEN <<x>>
    ELSE IF sorted[Len(sorted)] <= x THEN Append(sorted, x)
    ELSE Append(InsertInt(SubSeq(sorted, 1, Len(sorted) - 1), x), sorted[Len(sorted)])

RECURSIVE SortInts(_)
SortInts(s) == IF s = <<>> THEN <<>> ELSE InsertInt(SortInts(SubSeq(s, 1, Len(s) - 1)), s[Len(s)])

\* 100 * Series.quantile(0.95) with linear interpolation, on a non-empty column.
Quantile95x100(values) ==
    LET v == SortInts(values)
        pos == 95 * (Len(v) - 1)
        lo == (pos \div 100) + 1
        fr == pos % 100
    IN 100 * v[lo] + (IF lo < Len(v) THEN fr * (v[lo + 1] - v[lo]) ELSE 0)

\* Line 33: the risk_target column assigned on the frame load_all_data() holds.
ai_risk_scoring_columns(df) ==
    LET q == Quantile95x100(Column(df, "total_enrolments"))
        Target(r) == IF 100 * r["total_enrolments"] > q THEN 1 ELSE 0
    IN WithColumn(df, "risk_target", Target)

features == <<"total_enrolments", "age_0_5", "age_18_greater">>

\* Lines 39-42 and 77: DecisionTreeRegressor(max_depth=3) is built with no
\* random_state.  The root split is the best one; total_enrolments always has
\* a threshold that separates the flagged rows exactly, so the best split is an
\* exact one, and every feature with an exact threshold ties with it.  The
\* regressor visits the features in an order drawn from NumPy's global random
\* state and keeps the first of the tied splits, so the feature with all the
\* importance is any of the tied ones.  A constant target grows no split; all
\* importances are 0 and max() keeps the first key.
top_predictor(df) ==
    LET flagged == {i \in 1..Len(df.rows) : df.rows[i]["risk_target"] = 1}
        rest == (1..Len(df.rows)) \ flagged
        Separates(f) ==
            \/ \A i \in flagged, j \in rest : df.rows[i][f] > df.rows[j][f]
            \/ \A i \in flagged, j \in rest : df.rows[i][f] < df.rows[j][f]
    IN IF flagged = {} \/ rest = {} THEN {features[1]}
       ELSE {f \in SeqToSet(features) : Separates(f)}

ai_risk_scoring(L) ==
    UNION {
      LET df == ai_risk_scoring_columns(ld.L.heap["enrolment"][ld.refs["enrolment"]])
          L2 == [ld.L EXCEPT !.heap["enrolment"][ld.refs["enrolment"]] = df]
          Res(p) == Result("ai_risk_scoring", {"risk_or_insight"},
                        {"intermediate_values.training_samples", "intermediate_values.model_depth",
                         "final_result.top_predictor", "final_result.accuracy_proxy",
                         "visualization_data.features", "visualization_data.importance"},
                        {"EXPERIMENTAL"},
                        Final("ai_risk_scoring", <<Project(df, SeqToSet(features))>>, p))
      IN IF ld.raised THEN Raises(ld.L)
         ELSE IF ~Has(df, SeqToSet(features)) \/ Empty(df) THEN Raises(L2)
         ELSE {Outcome(L2, FALSE, Res(p)) : p \in top_predictor(df)}
      : ld \in {LoadAll(L)} }

\* ------------------------------------------------- analytics/executive.py
\* calculate_operational_health() and calculate_forecast_growth() group by
\* 'date'; nothing in get_executive_summary() catches what they raise.
get_executive_summary(L) ==
    {IF ld.raised \/ ~Has(ld.L.heap["enrolment"][ld.refs["enrolment"]], {"date"})
     THEN [L |-> ld.L, raised |-> TRUE, keys |-> {}, kpis |-> 0]
     ELSE [L |-> ld.L, raised |-> FALSE, keys |-> {"kpis", "system_status"}, kpis |-> 4]
     : ld \in {LoadAll(L)}}

\* ----------------------------------------------------- routers/before.py
\* aggregate_by_state_month() and aggregate_by_month() read 'date'.
get_raw_data(L) ==
    {IF ld.raised \/ (\E t \in TableIds : ~Has(Frame(ld.L, t), {"date"}))
     THEN [L |-> ld.L, raised |-> TRUE, keys |-> {}, kpis |-> 0]
     ELSE [L |-> ld.L, raised |-> FALSE,
           keys |-> {"message", "description", "statistics", "raw_aggregations"}, kpis |-> 0]
     : ld \in {LoadSeq(L, <<"enrolment", "demographic", "biometric">>)}}

\* ------------------------------------------ routers/unified_analytics.py
PayloadKeys == {"labels", "datasets", "kpis", "chartType", "title"}

\* An exception leaves the endpoint: the technique's own (reshaping FALSE), or
\* one raised by the endpoint's reshaping of the technique's result.
Failed(L, reshaping) == [L |-> L, raised |-> TRUE, reshaping |-> reshaping, keys |-> {}, kpis |-> 0]
Payload(L, kpis) == [L |-> L, raised |-> FALSE, reshaping |-> FALSE, keys |-> PayloadKeys, kpis |-> kpis]

\* res[...][...] for every path the branch reads: a KeyError when the
\* technique's result lacks one of them.
Index(outs, reads, kpis) ==
    {IF o.raised THEN Failed(o.L, FALSE)
     ELSE IF ~(reads \subseteq (o.res.paths \cup o.res.top)) THEN Failed(o.L, TRUE)
     ELSE Payload(o.L, kpis) : o \in outs}

get_executive(before, L) ==
    IF before
    THEN {IF o.raised THEN Failed(o.L, FALSE) ELSE Payload(o.L, 3) : o \in get_raw_data(L)}
    ELSE {IF o.raised THEN Failed(o.L, FALSE) ELSE Payload(o.L, o.kpis) : o \in get_executive_summary(L)}

get_descriptive(before, L) ==
    IF before
    THEN Index(univariate_analysis(L),
               {"final_result.mean", "final_result.median", "final_result.std_dev",
                "visualization_data.histogram.bin_edges", "visualization_data.histogram.values"}, 3)
    ELSE Index(time_series_decomposition(L),
               {"final_result.trend_direction", "intermediate_values.residual_noise",
                "intermediate_values.seasonality_amplitude", "visualization_data.dates",
                "visualization_data.observed", "visualization_data.trend"}, 3)

get_fraud(before, L) ==
    IF before
    THEN Index(benford_law_analysis(L),
               {"final_result.chi_square", "risk_classification", "visualization_data.expected",
                "visualization_data.labels", "visualization_data.observed"}, 2)
    ELSE Index(outlier_detection(L),
               {"final_result.anomaly_count", "final_result.max_deviation", "final_result.threshold",
                "visualization_data.histogram.bin_edges", "visualization_data.histogram.values"}, 3)

get_outliers(before, L) == get_fraud(before, L)

get_operations(before, L) ==
    IF before
    THEN Index(throughput_analysis(L),
               {"final_result.current_throughput", "final_result.historical_throughput",
                "visualization_data.time_series.dates", "visualization_data.time_series.values"}, 2)
    ELSE Index(queue_theory_analysis(L),
               {"final_result.avg_queue_length_lq", "final_result.avg_wait_time_wq",
                "final_result.prob_queue_p1", "final_result.utilization_rho",
                "intermediate_values.service_intensity"}, 3)

get_predictive(before, L) ==
    IF before
    THEN Index(regression_analysis(L),
               {"final_result.adjusted_r_squared", "final_result.r_squared",
                "visualization_data.actual_vs_predicted.actual",
                "visualization_data.actual_vs_predicted.predicted",
                "visualization_data.actual_vs_predicted.states"}, 2)
    ELSE Index(time_series_forecast(L),
               {"final_result.forecast_avg", "final_result.forecast_total",
                "final_result.trend_direction", "visualization_data.forecast.months",
                "visualization_data.forecast.values", "visualization_data.historical.months",
                "visualization_data.historical.values"}, 3)

get_geographic(before, L) ==
    IF before
    THEN Index(hotspot_analysis(L),
               {"final_result.global_mean", "final_result.hotspot_count", "visualization_data.labels",
                "visualization_data.values"}, 2)
    ELSE Index(cohort_analysis(L),
               {"final_result.dominant_cohort", "intermediate_values.cohort_count",
                "visualization_data.pie_chart.labels", "visualization_data.pie_chart.values"}, 2)

get_quality(before, L) ==
    IF before
    THEN Index(peer_benchmarking(L),
               {"intermediate_values.national_mean", "visualization_data.labels",
                "visualization_data.values"}, 2)
    ELSE Index(decile_analysis(L),
               {"final_result.top_decile_share", "intermediate_values.gini_proxy",
                "visualization_data.deciles", "visualization_data.volume_share"}, 2)

get_advanced(before, L) ==
    IF before
    THEN Index(ai_risk_scoring(L),
               {"visualization_data.features", "visualization_data.importance",
                "final_result.aggregate_risk_score", "risk_classification"}, 2)
    ELSE Index(ai_risk_scoring(L),
               {"visualization_data.features", "visualization_data.importance",
                "intermediate_values.feature_count", "intermediate_values.model_entropy"}, 2)

\* ------------------------------------------------------------ the server
Techniques ==
    {"benford_law_analysis", "outlier_detection", "pattern_recognition", "duplicate_detection",
     "forensic_analytics", "cluster_analysis", "hotspot_analysis", "cohort_analysis",
     "gender_parity_analysis", "gap_analysis", "queue_theory_analysis", "load_balance_analysis",
     "throughput_analysis", "yield_analysis", "pareto_analysis", "time_series_forecast",
     "regression_analysis", "scenario_planning", "survival_analysis", "peer_benchmarking",
     "decile_analysis", "univariate_analysis", "time_series_decomposition", "ai_risk_scoring"}

\* The technique endpoints: each route is the technique function itself.
Technique(name, L) ==
    CASE name = "benford_law_analysis" -> benford_law_analysis(L)
      [] name = "outlier_detection" -> outlier_detection(L)
      [] name = "pattern_recognition" -> pattern_recognition(L)
      [] name = "duplicate_detection" -> duplicate_detection(L)
      [] name = "forensic_analytics" -> forensic_analytics(L)
      [] name = "cluster_analysis" -> cluster_analysis(L)
      [] name = "hotspot_analysis" -> hotspot_analysis(L)
      [] name = "cohort_analysis" -> cohort_analysis(L)
      [] name = "gender_parity_analysis" -> gender_parity_analysis(L)
      [] name = "gap_analysis" -> gap_analysis(L)
      [] name = "queue_theory_analysis" -> queue_theory_analysis(L)
      [] name = "load_balance_analysis" -> load_balance_analysis(L)
      [] name = "throughput_analysis" -> throughput_analysis(L)
      [] name = "yield_analysis" -> yield_analysis(L)
      [] name = "pareto_analysis" -> pareto_analysis(L)
      [] name = "time_series_forecast" -> time_series_forecast(L)
      [] name = "regression_analysis" -> regression_analysis(L)
      [] name = "scenario_planning" -> scenario_planning(L)
      [] name = "survival_analysis" -> survival_analysis(L)
      [] name = "peer_benchmarking" -> peer_benchmarking(L)
      [] name = "decile_analysis" -> decile_analysis(L)
      [] name = "univariate_analysis" -> univariate_analysis(L)
      [] name = "time_series_decomposition" -> time_series_decomposition(L)
      [] OTHER -> ai_risk_scoring(L)

Sections ==
    {"executive", "descriptive", "fraud", "outliers", "operations", "predictive",
     "geographic", "quality", "advanced"}

\* The routes of /api/unified.
Unified(section, before, L) ==
    CASE section = "executive" -> get_executive(before, L)
      [] section = "descriptive" -> get_descriptive(before, L)
      [] section = "fraud" -> get_fraud(before, L)
      [] section = "outliers" -> get_outliers(before, L)
      [] section = "operations" -> get_operations(before, L)
      [] section = "predictive" -> get_predictive(before, L)
      [] section = "geographic" -> get_geographic(before, L)
      [] section = "quality" -> get_quality(before, L)
      [] OTHER -> get_advanced(before, L)

\* A response: 200 with the handler's return value, or what
\* global_exception_handler makes of an exception: 500 and a message.
Ok(kind, ep, before, res, keys, kpis) ==
    [kind |-> kind, ep |-> ep, before |-> before, status |-> 200, message |-> FALSE,
     reshaping |-> FALSE, res |-> res, keys |-> keys, kpis |-> kpis]
global_exception_handler(kind, ep, before, reshaping) ==
    [kind |-> kind, ep |-> ep, before |-> before, status |-> 500, message |-> TRUE,
     reshaping |-> reshaping, res |-> NoRes, keys |-> {"message"}, kpis |-> 0]

\* No handler has been started statement by statement.
NoTasks == [tasks |-> <<>>, current |-> 0]

\* No computation has been called directly.
NoCalc == [fn |-> "none", arg |-> <<>>, out |-> <<>>]

NoResp ==
    [kind |-> "none", ep |-> "", before |-> FALSE, status |-> 0, message |-> FALSE,
     reshaping |-> FALSE, res |-> NoRes, keys |-> {}, kpis |-> 0]

\* The handler that ran was the oldest waiting request; the tables it was
\* handed are those its loader calls returned.  flight[t] is kept until the
\* step after the last request of the group was served.
Served(L) ==
    /\ WithinLoadBound(L)
    /\ SetRepo(L)
    /\ waiting' = waiting - 1
    /\ cold' = [t \in TableIds |-> IF cold[t] > 0 THEN cold[t] - 1 ELSE 0]
    /\ flight' = [t \in TableIds |-> IF cold[t] = 0 THEN 0
                                      ELSE IF L.got[t] # 0 THEN flight[t] + 1 ELSE flight[t]]

\* ---------------------------------------------------------------- actions
Init ==
    /\ files \in Deployments
    /\ cache = [t \in TableIds |-> 0]
    /\ allCache = NoDict
    /\ heap = [t \in TableIds |-> <<>>]
    /\ pristine = [t \in TableIds |-> <<>>]
    /\ loadExec = [t \in TableIds |-> 0]
    /\ handed = [t \in TableIds |-> {}]
    /\ phase = "startup"
    /\ waiting = 0
    /\ cold = [t \in TableIds |-> 0]
    /\ flight = [t \in TableIds |-> 0]
    /\ lastResp = NoResp
    /\ calc = NoCalc
    /\ loop = NoTasks

\* main.py lifespan: the pre-load, whose failure is only printed.
lifespan ==
    /\ phase = "startup"
    /\ \E ld \in {LoadAll(Repo)} :
          /\ WithinLoadBound(ld.L)
          /\ SetRepo(ld.L)
    /\ phase' = "serving"
    /\ UNCHANGED <<files, waiting, cold, flight, lastResp, calc, loop>>

\* A request is accepted; its handler has not started.
Arrive ==
    /\ phase = "serving"
    /\ waiting < MaxWaiting
    /\ waiting' = waiting + 1
    /\ cold' = [t \in TableIds |-> IF cache[t] = 0 THEN cold[t] + 1 ELSE cold[t]]
    /\ flight' = [t \in TableIds |-> IF cold[t] = 0 THEN 0 ELSE flight[t]]
    /\ UNCHANGED <<files, cache, allCache, heap, pristine, loadExec, handed, phase, lastResp, calc, loop>>

\* CSV files are put into a Dataset/ folder that had none.
InstallFiles(t) ==
    /\ ~files[t].present
    /\ files' = [files EXCEPT ![t] = Delivered(t)]
    /\ UNCHANGED <<cache, allCache, heap, pristine, loadExec, handed, phase, waiting, cold, flight,
                   lastResp, calc, loop>>

\* The event loop runs one accepted request's handler to its end.
TechniqueRequest(name) ==
    /\ phase = "serving"
    /\ waiting > 0
    /\ \E o \in Technique(name, Repo) :
          /\ Served(o.L)
          /\ lastResp' = IF o.raised THEN global_exception_handler("technique", name, FALSE, FALSE)
                         ELSE Ok("technique", name, FALSE, o.res, o.res.top, 0)
    /\ UNCHANGED <<files, phase, calc, loop>>

UnifiedRequest(section, before) ==
    /\ phase = "serving"
    /\ waiting > 0
    /\ \E o \in Unified(section, before, Repo) :
          /\ Served(o.L)
          /\ lastResp' = IF o.raised
                         THEN global_exception_handler("unified", section, before, o.reshaping)
                         ELSE Ok("unified", section, before, NoRes, o.keys, o.kpis)
    /\ UNCHANGED <<files, phase, calc, loop>>

ExecutiveSummaryRequest ==
    /\ phase = "serving"
    /\ waiting > 0
    /\ \E o \in get_executive_summary(Repo) :
          /\ Served(o.L)
          /\ lastResp' = IF o.raised THEN global_exception_handler("summary", "summary", FALSE, FALSE)
                         ELSE Ok("summary", "summary", FALSE, NoRes, o.keys, o.kpis)
    /\ UNCHANGED <<files, phase, calc, loop>>

RawDataRequest ==
    /\ phase = "serving"
    /\ waiting > 0
    /\ \E o \in get_raw_data(Repo) :
          /\ Served(o.L)
          /\ lastResp' = IF o.raised THEN global_exception_handler("raw-data", "raw-data", FALSE, FALSE)
                         ELSE Ok("raw-data", "raw-data", FALSE, NoRes, o.keys, o.kpis)
    /\ UNCHANGED <<files, phase, calc, loop>>

Next ==
    \/ lifespan
    \/ Arrive
    \/ \E t \in TableIds : InstallFiles(t)
    \/ \E name \in Techniques : TechniqueRequest(name)
    \/ \E section \in Sections, before \in BOOLEAN : UnifiedRequest(section, before)
    \/ ExecutiveSummaryRequest
    \/ RawDataRequest

Spec == Init /\ [][Next]_vars

\* ------------------------------------------- the computations, on their own
\* The inputs of a direct call: series of at most MaxSeries numbers.
MaxSeries == 4

SeriesOver(S) == UNION {[1..k -> S] : k \in 0..MaxSeries}

\* ---- Benford's law: analytics/fraud.py 30-73 and analytics/executive.py 20-53
\* int(str(abs(int(v)))[0])
RECURSIVE LeadingDigit(_)
LeadingDigit(v) == IF v < 10 THEN v ELSE LeadingDigit(v \div 10)

Positive(v) == v > 0
LeadingDigits(vs) == [i \in 1..Len(vs) |-> LeadingDigit(vs[i])]

\* values = values[values > 0]; first_digits = [... for v in values if v >= 1]
first_digits(values) == LeadingDigits(SelectSeq(values, Positive))

\* Counter(first_digits), for the digits 1 to 9.
digit_counts(fd) == [d \in 1..9 |-> Cardinality({i \in 1..Len(fd) : fd[i] = d})]

\* np.log10(1 + 1/d) and its reciprocal, in units of 1/10000.
expected_freq == <<3010, 1761, 1249, 969, 792, 669, 580, 512, 458>>
expected_freq_inverse == <<33219, 56789, 80039, 103189, 126293, 149372, 172438, 195494, 218543>>

\* round(x, 4) of the fraction c / n, in units of 1/10000: Python rounds a tie
\* to the even neighbour.
Round4(c, n) ==
    LET q == (10000 * c) \div n
        r == (10000 * c) % n
    IN IF 2 * r > n \/ (2 * r = n /\ q % 2 = 1) THEN q + 1 ELSE q

\* observed_freq as reported: {str(d): round(observed_freq[d], 4)}.
observed_frequencies(counts, n) == [d \in 1..9 |-> Round4(counts[d], n)]

\* n * sum over d of (observed - expected)^2 / expected, with observed and
\* expected the counts of fraud.py 50-51, in units of 1/10000: each term is
\* c^2/e - 2cn + n^2 e.
ChiSquareTimesN(counts, n) ==
    SumSeq([d \in 1..9 |-> counts[d] * counts[d] * expected_freq_inverse[d]
                           - 2 * counts[d] * n * 10000
                           + n * n * expected_freq[d]])

\* fraud.py 62: p_value = 1 - stats.chi2.cdf(chi_square, 8), in units of 0.01
\* and as far as the comparisons of lines 65-73 tell it apart: the chi-square
\* distribution with 8 degrees of freedom leaves 0.01 above 20.0902 and 0.05
\* above 15.5073.
chi2_p_value(chi4n, n) ==
    IF chi4n > 200902 * n THEN 0
    ELSE IF chi4n > 155073 * n THEN 1
    ELSE 5

\* A classification whose first threshold is never met.
benford_risk_never_high(p_value) ==
    IF p_value # NaN /\ p_value < 5 THEN "MEDIUM" ELSE "LOW"

\* fraud.py 65-73, on the p-value in units of 0.01.
benford_risk(p_value) ==
    IF p_value # NaN /\ p_value < 1 THEN "HIGH"
    ELSE IF p_value # NaN /\ p_value < 5 THEN "MEDIUM" ELSE "LOW"

\* benford_law_analysis() on the total_enrolments column: line 39 divides by
\* total_count.
benford_law(values) ==
    LET fd == first_digits(values)
    IN IF Len(fd) = 0
       THEN [raised |-> TRUE, risk |-> "", observed |-> <<>>, chi_square |-> 0, sample_size |-> 0]
       ELSE [raised |-> FALSE,
             risk |-> benford_risk(chi2_p_value(ChiSquareTimesN(digit_counts(fd), Len(fd)), Len(fd))),
             observed |-> observed_frequencies(digit_counts(fd), Len(fd)),
             chi_square |-> ChiSquareTimesN(digit_counts(fd), Len(fd)),
             sample_size |-> Len(fd)]

\* executive.py 35-50: chi_square is summed over the frequencies, not the
\* counts, so it is ChiSquareTimesN / n^2; p_value = 1 - chi_square / 20 and
\* the levels are p_value < 0.01 and p_value < 0.05.
fraud_risk_level(chi4n, n) ==
    IF 100 * (200000 * n * n - chi4n) < 200000 * n * n THEN "HIGH"
    ELSE IF 100 * (200000 * n * n - chi4n) < 5 * 200000 * n * n THEN "MEDIUM"
    ELSE "LOW"

\* calculate_fraud_risk() on the total_enrolments column.
calculate_fraud_risk(values) ==
    LET fd == first_digits(values)
    IN IF Len(fd) > 0 THEN fraud_risk_level(ChiSquareTimesN(digit_counts(fd), Len(fd)), Len(fd))
       ELSE "LOW"

\* The totals a direct call is given.
BenfordValues == {0, 1, 5, 8, 9, 12}

\* The totals of 90 days of one state, every one starting with the digit 9.
NinetyDaysOfNines == {[i \in 1..90 |-> IF i % 2 = 0 THEN a ELSE b] : a, b \in {9, 95}}

BenfordCall ==
    /\ calc = NoCalc
    /\ \E values \in SeriesOver(BenfordValues) \cup NinetyDaysOfNines :
          calc' = [fn |-> "benford_law_analysis", arg |-> values, out |-> benford_law(values)]
    /\ UNCHANGED <<files, cache, allCache, heap, pristine, loadExec, handed, phase, waiting, cold,
                   flight, lastResp, loop>>

FraudRiskCall ==
    /\ calc = NoCalc
    /\ \E values \in SeriesOver(BenfordValues) :
          calc' = [fn |-> "calculate_fraud_risk", arg |-> values,
                   out |-> [risk |-> calculate_fraud_risk(values)]]
    /\ UNCHANGED <<files, cache, allCache, heap, pristine, loadExec, handed, phase, waiting, cold,
                   flight, lastResp, loop>>

\* ---- risk levels: analytics/utils.py 101-130 and the techniques' own branches
\* A metric is a number in units of 0.01, or NaN; every comparison with NaN
\* is false.
Greater(x, y) == x # NaN /\ x > y
Less(x, y) == x # NaN /\ x < y

assess_risk(metric_value, thresholds, ascending) ==
    IF ascending
    THEN (IF Greater(metric_value, thresholds.high)
          THEN <<"HIGH", "Critical threshold exceeded - immediate action required">>
          ELSE IF Greater(metric_value, thresholds.medium)
          THEN <<"MEDIUM", "Moderate risk detected - review recommended">>
          ELSE <<"LOW", "Within acceptable parameters">>)
    ELSE (IF Less(metric_value, thresholds.high)
          THEN <<"HIGH", "Critical threshold exceeded - immediate action required">>
          ELSE IF Less(metric_value, thresholds.medium)
          THEN <<"MEDIUM", "Moderate risk detected - review recommended">>
          ELSE <<"LOW", "Within acceptable parameters">>)

\* fraud.py 186-196, on outlier_rate.
outlier_risk(outlier_rate) ==
    IF Greater(outlier_rate, 500) THEN "HIGH"
    ELSE IF Greater(outlier_rate, 200) THEN "MEDIUM" ELSE "LOW"

\* operations.py 62-69, on utilization.
queue_risk(utilization) ==
    IF Greater(utilization, 90) THEN "HIGH"
    ELSE IF Greater(utilization, 70) THEN "MEDIUM" ELSE "LOW"

\* A branch that also takes the threshold itself for the worse level.
load_balance_risk_inclusive(balance_score) ==
    IF balance_score # NaN /\ balance_score <= 4000 THEN "HIGH"
    ELSE IF balance_score # NaN /\ balance_score <= 7000 THEN "MEDIUM" ELSE "LOW"

\* operations.py 182-189, on balance_score.
load_balance_risk(balance_score) ==
    IF Less(balance_score, 4000) THEN "HIGH"
    ELSE IF Less(balance_score, 7000) THEN "MEDIUM" ELSE "LOW"

\* operations.py 424-431, on yield_score.
yield_risk(yield_score) ==
    IF Less(yield_score, 3000) THEN "HIGH"
    ELSE IF Less(yield_score, 6000) THEN "MEDIUM" ELSE "LOW"

\* The branch a technique takes on its headline metric.
TechniqueRisk(technique, metric) ==
    CASE technique = "benford_law_analysis" -> benford_risk(metric)
      [] technique = "outlier_detection" -> outlier_risk(metric)
      [] technique = "queue_theory_analysis" -> queue_risk(metric)
      [] technique = "load_balance_analysis" -> load_balance_risk(metric)
      [] OTHER -> yield_risk(metric)

ClassifiedTechniques ==
    {"benford_law_analysis", "outlier_detection", "queue_theory_analysis",
     "load_balance_analysis", "yield_analysis"}

\* Metric values on, next to and away from every threshold.
MetricValues ==
    {NaN, 0, 10000} \cup {th + d : th \in {1, 5, 70, 90, 200, 500, 3000, 4000, 6000, 7000},
                                     d \in {-1, 0, 1}}

RiskThresholds == {[high |-> h, medium |-> m] : h \in {1, 90, 4000}, m \in {5, 70, 7000}}

ClassifyCall ==
    /\ calc = NoCalc
    /\ \E technique \in ClassifiedTechniques, metric \in MetricValues :
          calc' = [fn |-> "risk_classification", arg |-> <<technique, metric>>,
                   out |-> [risk |-> TechniqueRisk(technique, metric)]]
    /\ UNCHANGED <<files, cache, allCache, heap, pristine, loadExec, handed, phase, waiting, cold,
                   flight, lastResp, loop>>

AssessRiskCall ==
    /\ calc = NoCalc
    /\ \E metric \in MetricValues, thresholds \in RiskThresholds, ascending \in BOOLEAN :
          calc' = [fn |-> "assess_risk", arg |-> <<metric, thresholds, ascending>>,
                   out |-> assess_risk(metric, thresholds, ascending)]
    /\ UNCHANGED <<files, cache, allCache, heap, pristine, loadExec, handed, phase, waiting, cold,
                   flight, lastResp, loop>>

\* ---- create_response: analytics/utils.py 11-31 and 68-98
\* An optional argument: left out, None, or a value (a string for
\* risk_or_insight, the set of keys of the mapping for visualization_data).
Omitted == [kind |-> "omitted"]
None == [kind |-> "None"]
Given(v) == [kind |-> "value", v |-> v]

\* The parameter's default takes the place of an argument left out.
Default(arg, default) == IF arg = Omitted THEN default ELSE arg

\* x or {}: None and the empty mapping are falsy.
OrEmptyMapping(x) == IF x = None \/ x = Given({}) THEN Given({}) ELSE x

\* AnalyticsResponse.to_dict(): asdict(), then a None visualization_data
\* replaced by {}.
to_dict(response) ==
    IF response.visualization_data = None
    THEN [response EXCEPT !.visualization_data = Given({})]
    ELSE response

\* A constructor that hands both optional parts on as it got them.
create_response_passes_on(parts, risk_or_insight, visualization_data) ==
    [parts |-> parts,
     risk_or_insight |-> Default(risk_or_insight, Given("")),
     visualization_data |-> Default(visualization_data, None)]

create_response(parts, risk_or_insight, visualization_data) ==
    to_dict([parts |-> parts,
             risk_or_insight |-> Default(risk_or_insight, Given("")),
             visualization_data |-> OrEmptyMapping(Default(visualization_data, None))])

\* technique, description, formula, steps, intermediate_values, final_result,
\* risk_classification and decision, as one value.
ResponseParts ==
    {[technique |-> tq, risk_classification |-> r, final_result |-> f] :
        tq \in {"Benford's Law", ""}, r \in {"LOW", "HIGH"}, f \in {{}, {"chi_square"}}}

InsightArgs == {Omitted, None, Given(""), Given("insight")}
VisualizationArgs == {Omitted, None, Given({}), Given({"labels"})}

CreateResponseCall ==
    /\ calc = NoCalc
    /\ \E parts \in ResponseParts, roi \in InsightArgs, vd \in VisualizationArgs :
          calc' = [fn |-> "create_response", arg |-> <<parts, roi, vd>>,
                   out |-> create_response(parts, roi, vd)]
    /\ UNCHANGED <<files, cache, allCache, heap, pristine, loadExec, handed, phase, waiting, cold,
                   flight, lastResp, loop>>

\* ---- outlier detection: analytics/fraud.py 149-170
\* The district totals of a direct call: up to MaxRepeat districts of one
\* size, followed by a short series of others.
MaxRepeat == 9

Repeat(v, k) == [i \in 1..k |-> v]

DistrictTotals ==
    {Repeat(v, k) \o rest : v \in {1, 2}, k \in 0..MaxRepeat, rest \in SeriesOver({0, 3, 100})}

SumSquares(values) == SumSeq([i \in 1..Len(values) |-> values[i] * values[i]])

\* np.sort(values)[k - 1]
np_sort_at(values, k) ==
    CHOOSE x \in SeqToSet(values) :
        /\ Cardinality({i \in 1..Len(values) : values[i] < x}) < k
        /\ k <= Cardinality({i \in 1..Len(values) : values[i] <= x})

\* np.percentile(values, q), linear interpolation between the two nearest
\* ranks; in hundredths.
Interpolate(values, lo, r) ==
    IF r = 0 THEN 100 * np_sort_at(values, lo + 1)
    ELSE 100 * np_sort_at(values, lo + 1)
         + r * (np_sort_at(values, lo + 2) - np_sort_at(values, lo + 1))

np_percentile(values, q) ==
    Interpolate(values, (q * (Len(values) - 1)) \div 100, (q * (Len(values) - 1)) % 100)

\* Lines 150-155: |z| > 2.5 with z = (v - mean) / std and the population std;
\* with n values of sum S and sum of squares Q, z = (n v - S) / sqrt(n Q - S^2).
ZFlagged(values, n, S, Q) ==
    IF n * Q - S * S > 0
    THEN {i \in 1..n : 4 * (n * values[i] - S) * (n * values[i] - S) > 25 * (n * Q - S * S)}
    ELSE {}

z_outliers_mask(values) == ZFlagged(values, Len(values), SumSeq(values), SumSquares(values))

\* Lines 159-165: outside [q1 - 1.5 iqr, q3 + 1.5 iqr]; q1, q3 in hundredths.
IqrFlagged(values, q1, q3) ==
    {i \in 1..Len(values) :
        \/ 200 * values[i] < 2 * q1 - 3 * (q3 - q1)
        \/ 200 * values[i] > 2 * q3 + 3 * (q3 - q1)}

iqr_outliers_mask(values) == IqrFlagged(values, np_percentile(values, 25), np_percentile(values, 75))

\* A combination that keeps what either method flags.
combined_mask_either(z_mask, iqr_mask) == z_mask \cup iqr_mask

\* Line 169: z_outliers_mask & iqr_outliers_mask
combined_mask(z_mask, iqr_mask) == z_mask \cap iqr_mask

OutlierResult(z_mask, iqr_mask, combined) ==
    [raised |-> FALSE, z_mask |-> z_mask, iqr_mask |-> iqr_mask, combined_mask |-> combined,
     z_score_outliers |-> Cardinality(z_mask), iqr_outliers |-> Cardinality(iqr_mask),
     confirmed_outliers |-> Cardinality(combined)]

OutlierRaised ==
    [raised |-> TRUE, z_mask |-> {}, iqr_mask |-> {}, combined_mask |-> {},
     z_score_outliers |-> 0, iqr_outliers |-> 0, confirmed_outliers |-> 0]

\* outlier_detection() on the district totals.  With no district the mean,
\* the percentiles and the rate are taken of an empty array: numpy answers
\* NaN or raises, by version.
outlier_masks(values) ==
    IF Len(values) = 0 THEN {OutlierRaised, OutlierResult({}, {}, {})}
    ELSE {OutlierResult(z_outliers_mask(values), iqr_outliers_mask(values),
                        combined_mask(z_outliers_mask(values), iqr_outliers_mask(values)))}

OutlierCall ==
    /\ calc = NoCalc
    /\ \E values \in DistrictTotals :
          \E out \in outlier_masks(values) :
              calc' = [fn |-> "outlier_detection", arg |-> values, out |-> out]
    /\ UNCHANGED <<files, cache, allCache, heap, pristine, loadExec, handed, phase, waiting, cold,
                   flight, lastResp, loop>>

\* ---- Kaplan-Meier: analytics/predictive.py 513-560
\* A probability is a pair <<numerator, denominator>>.
One == <<1, 1>>

\* np.sort(np.unique(durations))
np_unique(durations) ==
    [k \in 1..Cardinality(SeqToSet(durations)) |->
        CHOOSE x \in SeqToSet(durations) :
            Cardinality({y \in SeqToSet(durations) : y < x}) = k - 1]

n_at_risk_t(durations, t) == Cardinality({i \in 1..Len(durations) : durations[i] >= t})
n_events_t(durations, t) == Cardinality({i \in 1..Len(durations) : durations[i] = t})

\* A step that multiplies by 1 + hazard.
survival_step_grows(current, at_risk, events) ==
    IF at_risk > 0 THEN <<current[1] * (at_risk + events), current[2] * at_risk>> ELSE current

\* Lines 531-532: current_survival *= (1 - hazard), hazard = events / at_risk
\* (0 when nobody is at risk).
survival_step(current, at_risk, events) ==
    IF at_risk > 0 THEN <<current[1] * (at_risk - events), current[2] * at_risk>> ELSE current

\* Lines 527-536: the loop over unique_times.
RECURSIVE survival_loop(_, _, _)
survival_from(durations, times, current) ==
    <<current>> \o survival_loop(durations, Tail(times), current)

survival_loop(durations, times, current) ==
    IF times = <<>> THEN <<>>
    ELSE survival_from(durations, times,
                       survival_step(current, n_at_risk_t(durations, times[1]),
                                     n_events_t(durations, times[1])))

\* np.argmax(np.array(survival_prob) <= 0.5), counted from 1: the first
\* position that holds, and the first position when none holds.
argmax_at_most_half(survival_prob) ==
    IF \E i \in 1..Len(survival_prob) : 2 * survival_prob[i][1] <= survival_prob[i][2]
    THEN CHOOSE i \in 1..Len(survival_prob) :
            /\ 2 * survival_prob[i][1] <= survival_prob[i][2]
            /\ \A k \in 1..(i - 1) : 2 * survival_prob[k][1] > survival_prob[k][2]
    ELSE 1

\* Lines 538-543: unique_times[median_idx] if median_idx > 0 else
\* unique_times[-1], median_idx counted from 0.
median_survival(times, median_idx) ==
    IF median_idx - 1 > 0 THEN times[median_idx] ELSE times[Len(times)]

\* The survival curve of survival_analysis() on the days to first update of
\* the states; lines 548-552 when no state has one.
kaplan_meier(durations) ==
    IF Len(durations) > 0
    THEN [times |-> np_unique(durations),
          survival_prob |-> survival_loop(durations, np_unique(durations), One),
          initial_survival_rate |-> One,
          median_survival_days |->
              median_survival(np_unique(durations),
                              argmax_at_most_half(survival_loop(durations, np_unique(durations), One)))]
    ELSE [times |-> <<0>>, survival_prob |-> <<One>>, initial_survival_rate |-> One,
          median_survival_days |-> 0]

DurationValues == {0, 1, 2, 5}

SurvivalCall ==
    /\ calc = NoCalc
    /\ \E durations \in SeriesOver(DurationValues) :
          calc' = [fn |-> "survival_analysis", arg |-> durations, out |-> kaplan_meier(durations)]
    /\ UNCHANGED <<files, cache, allCache, heap, pristine, loadExec, handed, phase, waiting, cold,
                   flight, lastResp, loop>>

\* ---- Gini coefficient: analytics/operations.py 165-169
\* np.sum(np.arange(1, n + 1) * sorted_loads)
RankWeightedSum(sorted_loads) ==
    SumSeq([i \in 1..Len(sorted_loads) |-> i * sorted_loads[i]])

\* Line 169, as the fraction num / den with den = n * sum(loads).  The
\* division is numpy's: 0 / 0 is nan, and so is the difference.  With no
\* state, (n + 1) / n divides Python integers by zero.
gini_of(sorted_loads, n) ==
    IF n = 0
    THEN [raised |-> TRUE, nan |-> FALSE, num |-> 0, den |-> 1]
    ELSE IF n * SumSeq(sorted_loads) = 0
    THEN [raised |-> FALSE, nan |-> TRUE, num |-> 0, den |-> 1]
    ELSE [raised |-> FALSE, nan |-> FALSE,
          num |-> 2 * RankWeightedSum(sorted_loads) - (n + 1) * SumSeq(sorted_loads),
          den |-> n * SumSeq(sorted_loads)]

gini(state_loads) == gini_of(SortInts(state_loads), Len(state_loads))

StateLoads == {0, 1, 3}

GiniCall ==
    /\ calc = NoCalc
    /\ \E state_loads \in SeriesOver(StateLoads) :
          calc' = [fn |-> "load_balance_analysis", arg |-> state_loads, out |-> gini(state_loads)]
    /\ UNCHANGED <<files, cache, allCache, heap, pristine, loadExec, handed, phase, waiting, cold,
                   flight, lastResp, loop>>

\* ---- Pareto: analytics/operations.py 512-531
\* round() of num / den to a whole number of units, a tie to the even one.
RoundHalfEven(num, den) ==
    IF 2 * (num % den) > den \/ (2 * (num % den) = den /\ (num \div den) % 2 = 1)
    THEN (num \div den) + 1
    ELSE num \div den

\* sort_values('total_enrolments', ascending=False)
Descending(loads) == [i \in 1..Len(loads) |-> SortInts(loads)[Len(loads) + 1 - i]]

\* (load / total * 100).round(decimals), in units of 1 / units percent.
percentage(load, total, units) == RoundHalfEven(load * 100 * units, total)

\* percentage.cumsum().round(2) at rank k, in hundredths of a percent.
cumulative(sorted, total, units, k) ==
    RoundHalfEven(SumSeq([i \in 1..k |-> percentage(sorted[i], total, units)]), units \div 100)

\* len(totals[totals['cumulative'] <= 80]) + 1; with a zero total every
\* share is NaN and no comparison holds.
count_for_80(sorted, total, units) ==
    IF total = 0 THEN 1
    ELSE Cardinality({k \in 1..Len(sorted) : cumulative(sorted, total, units, k) <= 8000}) + 1

\* pareto_analysis() on the totals of the states, and on the same totals as
\* those of the districts: percentages to 2 and to 4 decimals.  With no rows
\* line 521 divides by len(state_totals) = 0.
pareto(loads) ==
    [raised |-> Len(loads) = 0,
     states_for_80_percent |-> count_for_80(Descending(loads), SumSeq(loads), 100),
     districts_for_80_percent |-> count_for_80(Descending(loads), SumSeq(loads), 10000)]

ParetoCall ==
    /\ calc = NoCalc
    /\ \E loads \in SeriesOver(StateLoads) :
          calc' = [fn |-> "pareto_analysis", arg |-> loads, out |-> pareto(loads)]
    /\ UNCHANGED <<files, cache, allCache, heap, pristine, loadExec, handed, phase, waiting, cold,
                   flight, lastResp, loop>>

\* ---- duplicate detection: analytics/fraud.py 415-468
\* The composite keys are strings joined with '_'; a tuple of the parts
\* stands for the joined string.
location_key(r) == <<r.state, r.district, r.pincode>>
date_location_key(r) == <<r.date, location_key(r)>>
value_signature(r) == <<r.total_enrolments, r.age_0_5, r.age_5_17, r.age_18_greater>>
exact_key(r) == <<r.date, r.state, r.district, value_signature(r)>>

\* df.groupby(key).size() at the group k.
group_size(df, key(_), k) == Cardinality({i \in 1..Len(df) : key(df[i]) = k})

\* multi_entry['count'].sum() over the groups with count > 1: the groups are
\* disjoint, so the sum of their sizes is the number of rows in them.
multi_entry_records(df) ==
    Cardinality({i \in 1..Len(df) :
                    group_size(df, date_location_key, date_location_key(df[i])) > 1})

\* groupby(['date', 'state', 'district', 'value_signature']) drops the rows
\* whose date is NaT before it sizes the groups.
exact_dupes(df) ==
    {k \in {exact_key(df[i]) : i \in {j \in 1..Len(df) : df[j].date # NaT}} :
        group_size(df, exact_key, k) > 1}

\* fraud.py 460-468, the rate m / total * 100 compared as 100 m against the
\* threshold times total; total = 0 gives the rate 0.
duplicate_risk_rate_alone(m, total, exact_dupe_count) ==
    IF 100 * m > 5 * total THEN "HIGH"
    ELSE IF 100 * m > total THEN "MEDIUM"
    ELSE "LOW"

duplicate_risk(m, total, exact_dupe_count) ==
    IF 100 * m > 5 * total \/ exact_dupe_count > 100 THEN "HIGH"
    ELSE IF 100 * m > total \/ exact_dupe_count > 20 THEN "MEDIUM"
    ELSE "LOW"

duplicate_detection_of(df) ==
    [total_records |-> Len(df),
     multi_entry_records |-> multi_entry_records(df),
     exact_duplicate_sets |-> Cardinality(exact_dupes(df)),
     risk_classification |->
        duplicate_risk(multi_entry_records(df), Len(df), Cardinality(exact_dupes(df)))]

\* A loaded enrolment row of district D1 of state S1.
DupRow(d, pin, v) ==
    [date |-> d, state |-> "S1", district |-> "D1", pincode |-> pin,
     age_0_5 |-> v, age_5_17 |-> 0, age_18_greater |-> 0, total_enrolments |-> v]

\* One record, the same place and day with another count, the same day and
\* count at another pincode of the district, and a record with no date.
DupRows == {DupRow(1, 1, 1), DupRow(1, 1, 2), DupRow(1, 2, 1), DupRow(NaT, 1, 1)}

\* k days, on each the same count at two pincodes of the district.
ExactPairs(k) == [i \in 1..(2 * k) |-> DupRow((i + 1) \div 2, 1 + (i % 2), 1)]

\* n records on n - 1 days: two at the same place on day 1.
OneRepeat(n) == [i \in 1..n |-> IF i = 1 THEN DupRow(1, 1, 2) ELSE DupRow(i - 1, 1, 1)]

DupTables ==
    SeriesOver(DupRows) \cup {ExactPairs(k) : k \in {20, 21, 100, 101}}
                        \cup {OneRepeat(n) : n \in {39, 40, 199, 200}}

DuplicateCall ==
    /\ calc = NoCalc
    /\ \E df \in DupTables :
          calc' = [fn |-> "duplicate_detection", arg |-> df, out |-> duplicate_detection_of(df)]
    /\ UNCHANGED <<files, cache, allCache, heap, pristine, loadExec, handed, phase, waiting, cold,
                   flight, lastResp, loop>>

\* ---- additive decomposition: analytics/descriptive.py 102-119, 154-166
\* daily_data is the sequence of the daily totals of days 1..n of the year.
\* A float is a pair <<numerator, denominator>>; NaN has denominator 0.
NaNFloat == <<0, 0>>
IsNaN(x) == x[2] = 0
fillna0(x) == IF IsNaN(x) THEN <<0, 1>> ELSE x

\* rolling(window=window_size, center=True).mean() at row i: the window is
\* rows i - 15 .. i + 14, and the mean is NaN unless all of them exist.
rolling_mean(daily_data, i) ==
    IF i - (window_size \div 2) < 1 \/ i + ((window_size - 1) \div 2) > Len(daily_data)
    THEN NaNFloat
    ELSE <<SumSeq(SubSeq(daily_data, i - (window_size \div 2), i + ((window_size - 1) \div 2))),
           window_size>>

\* The rows that fall on the day of the week of row i.
SameWeekday(daily_data, i) == {j \in 1..Len(daily_data) : DayOfWeek(j) = DayOfWeek(i)}
WeekdaySum(daily_data, i) ==
    SumSeq([j \in 1..Len(daily_data) |-> IF DayOfWeek(j) = DayOfWeek(i) THEN daily_data[j] ELSE 0])

\* groupby('day_of_week').transform('mean') - daily_data.mean()
seasonality(daily_data, i) ==
    <<WeekdaySum(daily_data, i) * Len(daily_data)
          - SumSeq(daily_data) * Cardinality(SameWeekday(daily_data, i)),
      Cardinality(SameWeekday(daily_data, i)) * Len(daily_data)>>

\* daily_data - trend - seasonality.values
residual(observed, trend, seasonal) ==
    IF IsNaN(trend) THEN NaNFloat
    ELSE <<observed * trend[2] * seasonal[2] - trend[1] * seasonal[2] - seasonal[1] * trend[2],
           trend[2] * seasonal[2]>>

\* time_series_decomposition(): trend.iloc[window_size] at line 154 is out
\* of bounds unless there are more than window_size days.
decomposition(daily_data) ==
    [raised |-> Len(daily_data) <= window_size,
     observed |-> daily_data,
     trend |-> [i \in 1..Len(daily_data) |-> fillna0(rolling_mean(daily_data, i))],
     seasonality |-> [i \in 1..Len(daily_data) |-> seasonality(daily_data, i)],
     residuals |-> [i \in 1..Len(daily_data) |->
                       fillna0(residual(daily_data[i], rolling_mean(daily_data, i),
                                        seasonality(daily_data, i)))]]

DailyTotals == {0, 1, 3}

\* Days 1..n with one total on a day of the week and another on the rest.
WeeklySeries ==
    {[i \in 1..n |-> IF DayOfWeek(i) = k THEN x ELSE y] :
        n \in {31, 35}, k \in 0..6, x \in DailyTotals, y \in DailyTotals}

DecompositionCall ==
    /\ calc = NoCalc
    /\ \E daily_data \in SeriesOver(DailyTotals) \cup WeeklySeries :
          calc' = [fn |-> "time_series_decomposition", arg |-> daily_data,
                   out |-> decomposition(daily_data)]
    /\ UNCHANGED <<files, cache, allCache, heap, pristine, loadExec, handed, phase, waiting, cold,
                   flight, lastResp, loop>>

\* ---- forecast: analytics/predictive.py 34-79, 117
\* LinearRegression().fit on t = 0..n-1: slope and intercept as numerators
\* over den = n sum(t^2) - sum(t)^2; one month gives the constant line.
TimeSum(n) == SumSeq([i \in 1..n |-> i - 1])
TimeSquares(n) == SumSeq([i \in 1..n |-> (i - 1) * (i - 1)])
TimeWeighted(y) == SumSeq([i \in 1..Len(y) |-> (i - 1) * y[i]])

LinearRegression_fit(y, n) ==
    IF n = 1 THEN [slope |-> 0, intercept |-> y[1], den |-> 1]
    ELSE [slope |-> n * TimeWeighted(y) - TimeSum(n) * SumSeq(y),
          intercept |-> SumSeq(y) * TimeSquares(n) - TimeSum(n) * TimeWeighted(y),
          den |-> n * TimeSquares(n) - TimeSum(n) * TimeSum(n)]

\* trend_model.predict(t), times den
predict(fit, t) == fit.intercept + fit.slope * t

\* A forecast that is not clamped.
Max0_unclamped(x) == x

\* np.maximum(x, 0)
Max0(x) == IF x > 0 THEN x ELSE 0

\* Lines 62-65 for fewer than 12 months, where seasonal is zeros (line 53):
\* the forecasts of months n..n+5, times den.
forecast_values(fit, n) == [h \in 1..6 |-> Max0(predict(fit, n + h - 1))]

\* sum(residuals^2), times den^2
ResidualSquares(y, fit) ==
    SumSeq([i \in 1..Len(y) |-> (fit.den * y[i] - predict(fit, i - 1))
                                * (fit.den * y[i] - predict(fit, i - 1))])

\* Lines 46-54: with 12 months or more, seasonal[i] is the mean of
\* residuals[i::12]; here its sum (times den) and the number of months in it.
\* With fewer months seasonal is zeros, and nothing in the result says so.
seasonal_sum(y, fit, i) ==
    IF Len(y) >= 12
    THEN SumSeq([k \in 1..Len(y) |->
                    IF (k - 1) % 12 = i THEN fit.den * y[k] - predict(fit, k - 1) ELSE 0])
    ELSE 0

season_count(n, i) ==
    IF n >= 12 THEN Cardinality({k \in 0..(n - 1) : k % 12 = i}) ELSE 1

\* Lines 62-65: trend plus seasonal[t % 12], clamped, for t = n..n+5; the
\* value of month t is times den * season_count(n, t % 12).
seasonal_forecast(y, fit, n) ==
    [h \in 1..6 |-> Max0(season_count(n, (n + h - 1) % 12) * predict(fit, n + h - 1)
                         + seasonal_sum(y, fit, (n + h - 1) % 12))]

\* Lines 72-74: the sign of np.maximum(0, forecast - 1.96 std_residual), with
\* std_residual = sqrt(sum(residuals^2) / n): the bound is positive when
\* 625 n forecast^2 > 2401 sum(residuals^2), the forecast over den * count.
ci_lower_sign(forecast, n, residual_squares) ==
    [h \in 1..6 |->
        IF residual_squares = 0 THEN (IF forecast[h] > 0 THEN 1 ELSE 0)
        ELSE IF 625 * n * forecast[h] * forecast[h]
                  > 2401 * residual_squares * season_count(n, (n + h - 1) % 12)
                                            * season_count(n, (n + h - 1) % 12)
        THEN 1 ELSE 0]

\* Line 60: r_squared < 0.5, where r_squared is 0 when ss_tot is 0;
\* ss_tot = (n sum(y^2) - sum(y)^2) / n and ss_res = residual_squares / den^2.
LowFit(fit, n, n_ss_tot, residual_squares) ==
    IF n_ss_tot > 0 THEN 2 * n * residual_squares > fit.den * fit.den * n_ss_tot ELSE TRUE

\* Lines 81-91: "decreasing" is a slope that is not above 0; HIGH when it
\* falls by more than a tenth of the mean per month.
forecast_risk(fit, y, n) ==
    IF fit.slope <= 0 /\ 10 * n * (0 - fit.slope) > SumSeq(y) * fit.den THEN "HIGH"
    ELSE IF LowFit(fit, n, n * SumSeq([i \in 1..n |-> y[i] * y[i]]) - SumSeq(y) * SumSeq(y),
                   ResidualSquares(y, fit))
    THEN "MEDIUM"
    ELSE "LOW"

Forecast(raised, fit, forecast, sign, risk, months) ==
    [raised |-> raised, slope |-> fit.slope, den |-> fit.den, forecast_values |-> forecast,
     ci_lower |-> sign, risk |-> risk, months_analyzed |-> months,
     keys |-> {"intermediate_values.seasonal_factors", "final_result.r_squared",
               "final_result.months_analyzed", "risk_classification", "forecast"}]

ForecastOf(y, fit) ==
    Forecast(TRUE, fit, seasonal_forecast(y, fit, Len(y)),
             ci_lower_sign(seasonal_forecast(y, fit, Len(y)), Len(y), ResidualSquares(y, fit)),
             forecast_risk(fit, y, Len(y)), Len(y))

\* time_series_forecast() on the monthly totals.  fit() refuses an empty
\* series; otherwise the values are computed and the result being built
\* evaluates range(len(monthly)) % 12 at line 117, a TypeError.
forecast_of_monthly(y) ==
    IF Len(y) = 0
    THEN Forecast(TRUE, [slope |-> 0, intercept |-> 0, den |-> 1], <<>>, <<>>, "", 0)
    ELSE ForecastOf(y, LinearRegression_fit(y, Len(y)))

\* forecast_linear() of routers/after.py 366-415 on the monthly totals: an
\* error for fewer than two months, else the clamped predictions of the next
\* six months (times den); it has no confidence bounds.
forecast_linear(y) ==
    IF Len(y) < 2
    THEN [raised |-> FALSE, slope |-> 0, den |-> 1, forecast_values |-> <<>>, ci_lower |-> <<>>]
    ELSE [raised |-> FALSE, slope |-> LinearRegression_fit(y, Len(y)).slope,
          den |-> LinearRegression_fit(y, Len(y)).den,
          forecast_values |-> forecast_values(LinearRegression_fit(y, Len(y)), Len(y)),
          ci_lower |-> <<>>]

MonthlyTotals == {0, 1, 3}

\* Short series of monthly totals, and one and three years of the same total.
MonthlySeries ==
    SeriesOver(MonthlyTotals) \cup {Repeat(v, 12 * years) : v \in MonthlyTotals, years \in {1, 3}}

ForecastCall ==
    /\ calc = NoCalc
    /\ \E y \in MonthlySeries :
          \/ calc' = [fn |-> "time_series_forecast", arg |-> y, out |-> forecast_of_monthly(y)]
          \/ calc' = [fn |-> "forecast_linear", arg |-> y, out |-> forecast_linear(y)]
    /\ UNCHANGED <<files, cache, allCache, heap, pristine, loadExec, handed, phase, waiting, cold,
                   flight, lastResp, loop>>

\* The computations called directly, in a process whose server has not
\* started and whose Dataset/ folders are empty.
CalcInit ==
    /\ files = [t \in TableIds |-> NoFile]
    /\ cache = [t \in TableIds |-> 0]
    /\ allCache = NoDict
    /\ heap = [t \in TableIds |-> <<>>]
    /\ pristine = [t \in TableIds |-> <<>>]
    /\ loadExec = [t \in TableIds |-> 0]
    /\ handed = [t \in TableIds |-> {}]
    /\ phase = "startup"
    /\ waiting = 0
    /\ cold = [t \in TableIds |-> 0]
    /\ flight = [t \in TableIds |-> 0]
    /\ lastResp = NoResp
    /\ calc = NoCalc
    /\ loop = NoTasks

\* The caller has taken the result; the next call can be made.
CalcReturn ==
    /\ calc # NoCalc
    /\ calc' = NoCalc
    /\ UNCHANGED <<files, cache, allCache, heap, pristine, loadExec, handed, phase, waiting, cold,
                   flight, lastResp, loop>>

CalcNext ==
    \/ CalcReturn
    \/ BenfordCall
    \/ FraudRiskCall
    \/ ClassifyCall
    \/ AssessRiskCall
    \/ CreateResponseCall
    \/ OutlierCall
    \/ SurvivalCall
    \/ GiniCall
    \/ ParetoCall
    \/ DuplicateCall
    \/ DecompositionCall
    \/ ForecastCall

CalcSpec == CalcInit /\ [][CalcNext]_vars

\* ------------------------------------ the handlers, statement by statement
\* asyncio runs one coroutine at a time: the task that has the loop keeps it
\* until it returns, raises, or reaches an await that suspends.  Two handlers
\* are followed: pattern_recognition (fraud.py 271-283: the load, then four
\* column assignments on the table the loader returned, then the rest of the
\* body) and get_fraud (unified_analytics.py 116-134: await of a technique
\* coroutine, which loads the table and computes; then the reshaping).
HandlerNames == {"pattern_recognition", "get_fraud"}

PatternColumns == <<"day_of_week", "day_of_month", "is_weekend", "is_month_end">>

\* The number of statements of a handler.
Statements(name) == IF name = "pattern_recognition" THEN Len(PatternColumns) + 2 ELSE 2

\* A handler that gives the loop back after each of its statements.
SuspensionPoints_each_statement(name) == 1..(Statements(name) - 1)

\* The statements after which a handler suspends.  No handler awaits
\* anything but another coroutine of this program, and none of these awaits
\* a future, a sleep or I/O: an awaited coroutine runs inside its caller's
\* task.  The CSV load is a blocking call.
SuspensionPoints(name) == {}

\* fraud.py 280-283, one assignment.
PatternColumn(df, k) ==
    LET Dow(r) == DayOfWeek(r["date"])
        Dom(r) == DayOfMonth(r["date"])
        Weekend(r) == r["day_of_week"] \in {5, 6}
        MonthEnd(r) == r["day_of_month"] >= 25
    IN CASE k = 1 -> WithColumn(df, "day_of_week", Dow)
         [] k = 2 -> WithColumn(df, "day_of_month", Dom)
         [] k = 3 -> WithColumn(df, "is_weekend", Weekend)
         [] OTHER -> WithColumn(df, "is_month_end", MonthEnd)

\* The columns assignment k reads.
PatternReads(k) == IF k <= 2 THEN {"date"} ELSE {PatternColumns[k - 2]}

\* A task of the loop: its handler, the statements it has executed, the table
\* its loader call returned and the columns that table had at that moment.
Task(name) == [name |-> name, pc |-> 0, ref |-> 0, seen |-> {}]

\* The loop is free, or task i has it.
MayRun(i) == i \in 1..Len(loop.tasks) /\ loop.current \in {0, i}

\* Task i has executed a statement and goes on, or suspends there.
Continue(i, task) ==
    [tasks |-> [loop.tasks EXCEPT ![i] = task],
     current |-> IF task.pc \in SuspensionPoints(task.name) THEN 0 ELSE i]

\* Task i has returned or raised.
Finish(i) ==
    [tasks |-> [k \in 1..(Len(loop.tasks) - 1) |->
                   IF k < i THEN loop.tasks[k] ELSE loop.tasks[k + 1]],
     current |-> 0]

\* The server accepts a request and creates the task of its handler.
Accept(name) ==
    /\ phase = "serving"
    /\ Len(loop.tasks) < MaxWaiting
    /\ loop' = [loop EXCEPT !.tasks = Append(@, Task(name))]
    /\ UNCHANGED <<files, cache, allCache, heap, pristine, loadExec, handed, phase, waiting, cold,
                   flight, lastResp, calc>>

\* df = load_enrolment_data(): the first statement of both handlers.
LoadStatement(i) ==
    /\ MayRun(i)
    /\ loop.tasks[i].pc = 0
    /\ \E ld \in {LoadTable(Repo, "enrolment")} :
          /\ WithinLoadBound(ld.L)
          /\ SetRepo(ld.L)
          /\ loop' = IF ld.raised THEN Finish(i)
                     ELSE Continue(i, [loop.tasks[i] EXCEPT
                                          !.pc = 1, !.ref = ld.ref,
                                          !.seen = ld.L.heap["enrolment"][ld.ref].cols])
    /\ UNCHANGED <<files, phase, waiting, cold, flight, lastResp, calc>>

\* df[column] = ...: a KeyError ends the handler.
AssignStatement(i) ==
    /\ MayRun(i)
    /\ loop.tasks[i].name = "pattern_recognition"
    /\ loop.tasks[i].pc \in 1..Len(PatternColumns)
    /\ IF Has(heap["enrolment"][loop.tasks[i].ref], PatternReads(loop.tasks[i].pc))
       THEN /\ heap' = [heap EXCEPT !["enrolment"][loop.tasks[i].ref] =
                           PatternColumn(@, loop.tasks[i].pc)]
            /\ loop' = Continue(i, [loop.tasks[i] EXCEPT !.pc = @ + 1])
       ELSE /\ heap' = heap
            /\ loop' = Finish(i)
    /\ UNCHANGED <<files, cache, allCache, pristine, loadExec, handed, phase, waiting, cold,
                   flight, lastResp, calc>>

\* The rest of the body: it computes on what it has and returns or raises.
ReturnStatement(i) ==
    /\ MayRun(i)
    /\ loop.tasks[i].pc = Statements(loop.tasks[i].name) - 1
    /\ loop' = Finish(i)
    /\ UNCHANGED <<files, cache, allCache, heap, pristine, loadExec, handed, phase, waiting, cold,
                   flight, lastResp, calc>>

LoopNext ==
    \/ lifespan
    \/ \E t \in TableIds : InstallFiles(t)
    \/ \E name \in HandlerNames : Accept(name)
    \/ \E i \in 1..MaxWaiting : LoadStatement(i)
    \/ \E i \in 1..MaxWaiting : AssignStatement(i)
    \/ \E i \in 1..MaxWaiting : ReturnStatement(i)

LoopSpec == Init /\ [][LoopNext]_vars

\* ------------------------------------------------------------------ claims
\* Every DataFrame the loaders created still has the columns and values it
\* had when its load returned.
CacheAsLoaded ==
    \A t \in TableIds : \A i \in 1..Len(heap[t]) : heap[t][i] = pristine[t][i]

\* The handler of a request ran in this step.
HandlerRan == waiting' < waiting

\* C1: no technique mutates the shared cached table: after any sequence of
\* technique requests the table load_enrolment_data() returns has exactly the
\* columns and values it had right after the load.
C1_CachedTableAsLoaded ==
    \A i \in 1..Len(heap["enrolment"]) : heap["enrolment"][i] = pristine["enrolment"][i]

\* C2: exactly-once load: for each table id the loader body returns a table at
\* most once, every loader call is handed the one cached object, and the dict
\* load_all_data() holds refers to the same objects as the three loaders.
C2_ExactlyOnceLoad ==
    \A t \in TableIds :
        /\ loadExec[t] <= 1
        /\ Len(heap[t]) = loadExec[t]
        /\ handed[t] \subseteq ({cache[t]} \ {0})
        /\ allCache # NoDict => (cache[t] # 0 /\ allCache[t] = cache[t])

\* A request that calls the three loaders was answered after load_all_data()
\* had already loaded and memoized the three tables.
C2_LaterCallsServedFromCache ==
    /\ lastResp.kind = "technique"
    /\ lastResp.ep = "yield_analysis"
    /\ lastResp.status = 200
    /\ allCache # NoDict
    /\ \A t \in TableIds : loadExec[t] = 1 /\ handed[t] = {cache[t]}

C4_SameFinalResult ==
    [][(/\ HandlerRan
        /\ lastResp.kind = "technique" /\ lastResp.status = 200
        /\ lastResp'.kind = "technique" /\ lastResp'.status = 200
        /\ lastResp'.ep = lastResp.ep
        /\ loadExec' = loadExec)
       => lastResp'.res.final = lastResp.res.final]_vars

\* C5: a request that ends in an exception is answered 500 with a message, the
\* server keeps serving, and every cached table is left as its load made it.
C5_FailureLeavesCacheAsLoaded ==
    [][(HandlerRan /\ lastResp'.status = 500 /\ CacheAsLoaded)
       => (lastResp'.message /\ phase' = "serving" /\ CacheAsLoaded')]_vars

\* C6: for every unified endpoint and both values of the flag, the reshaping
\* of the technique's result does not raise, and what it returns has labels,
\* datasets, kpis, chartType and title.
C6_ReshapingDoesNotRaise ==
    lastResp.kind = "unified" =>
        /\ ~lastResp.reshaping
        /\ lastResp.status = 200 => lastResp.keys = PayloadKeys

\* C7: every result a technique returns, on every return path, carries all
\* the required AnalysisResult fields.
C7_RequiredFields ==
    (lastResp.kind = "technique" /\ lastResp.status = 200) => RequiredKeys \subseteq lastResp.keys

\* C8: the risk_classification of every result a technique returns is one of
\* LOW, MEDIUM, HIGH, INFO.
C8_RiskLevel ==
    (lastResp.kind = "technique" /\ lastResp.status = 200 /\ "risk_classification" \in lastResp.keys)
        => lastResp.res.risk \subseteq RiskLevels

\* C9: a table is loaded and memoized only from a folder that holds CSV files
\* with data rows, and no loaded table is empty.
C9_NoEmptyTable ==
    \A t \in TableIds :
        \A i \in 1..Len(pristine[t]) :
            /\ files[t].present
            /\ files[t].rows # <<>>
            /\ pristine[t][i].rows # <<>>

\* C10: once load_all_data() has returned the three tables, the executive
\* summary is answered with its four kpis whatever an indicator's computation
\* does.
C10_SummaryDegrades ==
    (lastResp.kind = "summary" /\ allCache # NoDict) => (lastResp.status = 200 /\ lastResp.kpis = 4)

\* C11: the fraud-risk level of the executive summary is the Benford
\* technique's: calculate_fraud_risk returns, on every column of totals, the
\* risk_classification benford_law_analysis returns on it.
C11_FraudRiskIsBenfordRisk ==
    (calc.fn = "calculate_fraud_risk" /\ ~benford_law(calc.arg).raised)
        => calc.out.risk = benford_law(calc.arg).risk

\* The catalogue entry of a technique: the thresholds of its headline metric, in
\* units of 0.01, and whether a higher value is worse.
RiskCatalogue(technique) ==
    CASE technique = "benford_law_analysis" -> [thresholds |-> [high |-> 1, medium |-> 5], ascending |-> FALSE]
      [] technique = "outlier_detection" -> [thresholds |-> [high |-> 500, medium |-> 200], ascending |-> TRUE]
      [] technique = "queue_theory_analysis" -> [thresholds |-> [high |-> 90, medium |-> 70], ascending |-> TRUE]
      [] technique = "load_balance_analysis" -> [thresholds |-> [high |-> 4000, medium |-> 7000], ascending |-> FALSE]
      [] OTHER -> [thresholds |-> [high |-> 3000, medium |-> 6000], ascending |-> FALSE]

\* C12: for Benford, outlier detection, queue theory, load balancing and
\* yield, the level the technique assigns to its headline metric is the first
\* component of assess_risk on that metric with the catalogue's thresholds and
\* direction, for every metric value.
C12_RiskIsAssessRisk ==
    calc.fn = "risk_classification" =>
        calc.out.risk = assess_risk(calc.arg[2], RiskCatalogue(calc.arg[1]).thresholds,
                                    RiskCatalogue(calc.arg[1]).ascending)[1]

\* Load balancing has classified a balance score that lies on its threshold.
C12_ScoreOnThreshold ==
    /\ calc.fn = "risk_classification"
    /\ calc.arg = <<"load_balance_analysis", 4000>>
    /\ calc.out.risk = "MEDIUM"

\* C13 (as stated): create_response carries the named parts unchanged, never
\* returns a null visualization_data, and gives visualization_data {} and
\* risk_or_insight "" whenever the caller left the argument out or passed None.
C13_DefaultsOnOmittedOrNone ==
    calc.fn = "create_response" =>
        /\ calc.out.parts = calc.arg[1]
        /\ calc.out.visualization_data # None
        /\ calc.arg[3] \in {Omitted, None} => calc.out.visualization_data = Given({})
        /\ calc.arg[2] \in {Omitted, None} => calc.out.risk_or_insight = Given("")

\* C13 (amended): create_response carries the named parts unchanged and never
\* returns a null visualization_data; visualization_data is {} when the caller
\* left it out or passed None, and otherwise the mapping passed;
\* risk_or_insight is "" when the caller left it out, and otherwise what the
\* caller passed, None included.
C13_DefaultsAsCoded ==
    calc.fn = "create_response" =>
        /\ calc.out.parts = calc.arg[1]
        /\ calc.out.visualization_data # None
        /\ calc.out.visualization_data.kind = "value"
        /\ calc.arg[3] \in {Omitted, None} => calc.out.visualization_data = Given({})
        /\ calc.arg[3].kind = "value" => calc.out.visualization_data = calc.arg[3]
        /\ calc.arg[2] = Omitted => calc.out.risk_or_insight = Given("")
        /\ calc.arg[2] # Omitted => calc.out.risk_or_insight = calc.arg[2]

\* create_response was called with None for both optional parts.
C13_BothPassedNone ==
    /\ calc.fn = "create_response"
    /\ calc.arg[2] = None
    /\ calc.arg[3] = None
    /\ calc.out.visualization_data = Given({})
    /\ calc.out.risk_or_insight = None

\* The sum of the age-band columns a row has.
AgeBandSum(cols, r) ==
    (IF "age_0_5" \in cols THEN r["age_0_5"] ELSE 0)
    + (IF "age_5_17" \in cols THEN r["age_5_17"] ELSE 0)
    + (IF "age_18_greater" \in cols THEN r["age_18_greater"] ELSE 0)

\* C14: in every table a loader has returned, no numeric cell and no text cell
\* is missing, no row has an unparseable date, the rows are in ascending date
\* order, and every enrolment row's total_enrolments is the sum of its
\* age-band columns.
C14_PreprocessedTable ==
    \A t \in TableIds :
        \A k \in 1..Len(pristine[t]) :
            /\ \A i \in 1..Len(pristine[t][k].rows) :
                  /\ \A c \in pristine[t][k].cols \ {"date"} :
                        IF c \in StringCols
                        THEN pristine[t][k].rows[i][c] # NoneStr
                        ELSE pristine[t][k].rows[i][c] # NaN
                  /\ "date" \in pristine[t][k].cols => pristine[t][k].rows[i]["date"] # NaT
                  /\ t = "enrolment" =>
                        pristine[t][k].rows[i]["total_enrolments"]
                            = AgeBandSum(pristine[t][k].cols, pristine[t][k].rows[i])
            /\ "date" \in pristine[t][k].cols =>
                  \A i, j \in 1..Len(pristine[t][k].rows) :
                      i < j => pristine[t][k].rows[i]["date"] <= pristine[t][k].rows[j]["date"]

\* The enrolment table was loaded from a file with an empty numeric cell, an
\* empty text cell and a date that is none, and it kept the other rows.
C14_DirtyFileLoaded ==
    /\ Len(pristine["enrolment"]) = 1
    /\ {"date", "district", "age_0_5"} \subseteq files["enrolment"].cols
    /\ \E i \in 1..Len(files["enrolment"].rows) : files["enrolment"].rows[i]["age_0_5"] = NaN
    /\ \E i \in 1..Len(files["enrolment"].rows) : files["enrolment"].rows[i]["district"] = NoneStr
    /\ \E i \in 1..Len(files["enrolment"].rows) : ParseDate(files["enrolment"].rows[i]["date"]) = NaT
    /\ Len(pristine["enrolment"][1].rows) >= 2
    /\ Len(pristine["enrolment"][1].rows) < Len(files["enrolment"].rows)

\* C15: once load_all_data() has warmed the cache and the enrolment table is
\* cached, univariate_analysis() completes without raising and returns a
\* mapping of result fields.
C15_UnivariateCompletes ==
    [][(/\ HandlerRan
        /\ allCache # NoDict
        /\ cache["enrolment"] # 0
        /\ lastResp'.kind = "technique"
        /\ lastResp'.ep = "univariate_analysis")
       => (lastResp'.status = 200 /\ lastResp'.keys # {})]_vars

\* C16: for any series of positive integers the observed_frequencies that
\* benford_law_analysis reports for the digits 1 to 9 sum to 1.0 within 1e-9,
\* and the reported chi-square is not negative.  The reported frequencies are
\* multiples of 0.0001, so their sum is within 1e-9 of 1.0 only when it is
\* 10000 of these units.
C16_FrequenciesSumToOne ==
    (/\ calc.fn = "benford_law_analysis"
     /\ Len(calc.arg) > 0
     /\ \A i \in 1..Len(calc.arg) : calc.arg[i] >= 1)
    => (/\ ~calc.out.raised
        /\ SumSeq(calc.out.observed) = 10000
        /\ calc.out.chi_square >= 0)

\* C17: the confirmed outliers are the districts flagged by the Z-score
\* method and by the IQR method, so they are a subset of each flagged set and
\* confirmed_outliers exceeds neither z_score_outliers nor iqr_outliers.
C17_ConfirmedIsIntersection ==
    (calc.fn = "outlier_detection" /\ ~calc.out.raised) =>
        /\ calc.out.combined_mask \subseteq z_outliers_mask(calc.arg)
        /\ calc.out.combined_mask \subseteq iqr_outliers_mask(calc.arg)
        /\ \A i \in 1..Len(calc.arg) :
              (i \in z_outliers_mask(calc.arg) /\ i \in iqr_outliers_mask(calc.arg))
                  => i \in calc.out.combined_mask
        /\ calc.out.confirmed_outliers <= calc.out.z_score_outliers
        /\ calc.out.confirmed_outliers <= calc.out.iqr_outliers
        /\ calc.out.confirmed_outliers = Cardinality(calc.out.combined_mask)

\* A district is confirmed and another is flagged by the IQR method alone.
C17_OneConfirmedOneNot ==
    /\ calc.fn = "outlier_detection"
    /\ ~calc.out.raised
    /\ calc.out.confirmed_outliers >= 1
    /\ calc.out.iqr_outliers > calc.out.confirmed_outliers

\* C18: for any durations the survival_prob sequence over the sorted event
\* times does not increase, every value of it lies in [0,1], and the survival
\* before the first event is 1: initial_survival_rate is 1 and the first value
\* is 1 less the share of the durations that end at the first event time.
C18_SurvivalCurve ==
    calc.fn = "survival_analysis" =>
        /\ Len(calc.out.survival_prob) = Len(calc.out.times)
        /\ \A i, j \in 1..Len(calc.out.times) : i < j => calc.out.times[i] < calc.out.times[j]
        /\ \A i \in 1..Len(calc.out.survival_prob) :
              /\ calc.out.survival_prob[i][2] > 0
              /\ 0 <= calc.out.survival_prob[i][1]
              /\ calc.out.survival_prob[i][1] <= calc.out.survival_prob[i][2]
        /\ \A i, j \in 1..Len(calc.out.survival_prob) :
              i < j => calc.out.survival_prob[j][1] * calc.out.survival_prob[i][2]
                           <= calc.out.survival_prob[i][1] * calc.out.survival_prob[j][2]
        /\ calc.out.initial_survival_rate = One
        /\ Len(calc.arg) > 0 =>
              calc.out.survival_prob[1][1] * Len(calc.arg)
                  = calc.out.survival_prob[1][2]
                    * (Len(calc.arg) - n_events_t(calc.arg, calc.out.times[1]))

\* Durations with three event times: the curve falls twice before it ends at 0.
C18_CurveFallsTwice ==
    /\ calc.fn = "survival_analysis"
    /\ Len(calc.out.survival_prob) >= 3
    /\ calc.out.survival_prob[2][1] > 0
    /\ calc.out.survival_prob[2][1] * calc.out.survival_prob[1][2]
           < calc.out.survival_prob[1][1] * calc.out.survival_prob[2][2]

\* C19: for any vector of non-negative state loads, an all-zero vector and a
\* single state included, the Gini coefficient is a number in [0,1], and it
\* is 0 when all states have the same load.
C19_GiniInUnitInterval ==
    (calc.fn = "load_balance_analysis" /\ Len(calc.arg) > 0) =>
        /\ ~calc.out.raised
        /\ ~calc.out.nan
        /\ 0 <= calc.out.num
        /\ calc.out.num <= calc.out.den
        /\ (\A i \in 1..Len(calc.arg) : calc.arg[i] = calc.arg[1]) => calc.out.num = 0

C21_FlatSeriesNotHigh ==
    (/\ calc.fn = "time_series_forecast"
     /\ Len(calc.arg) = 36
     /\ \A i \in 1..Len(calc.arg) : calc.arg[i] = calc.arg[1])
    => (~calc.out.raised /\ calc.out.slope = 0 /\ calc.out.risk # "HIGH")

\* C22: for a table of 90 totals that all start with the digit 9,
\* benford_law_analysis returns risk_classification HIGH, and its p-value is
\* below 0.01.
C22_AllNinesIsHigh ==
    (/\ calc.fn = "benford_law_analysis"
     /\ Len(calc.arg) = 90
     /\ \A i \in 1..Len(calc.arg) : LeadingDigit(calc.arg[i]) = 9)
    => (/\ ~calc.out.raised
        /\ calc.out.risk = "HIGH"
        /\ chi2_p_value(calc.out.chi_square, calc.out.sample_size) < 1)

\* benford_law_analysis has run on 90 totals made of 9 and 95.
C22_NinetyNinesAnalysed ==
    /\ calc.fn = "benford_law_analysis"
    /\ Len(calc.arg) = 90
    /\ SeqToSet(calc.arg) = {9, 95}
    /\ calc.out.sample_size = 90
    /\ calc.out.observed[9] = 10000

\* C23: when the denominator of a derived ratio is zero the technique returns
\* with the ratio at its default and raises nothing; in particular
\* benford_law_analysis returns when no value is at least 1.
C23_ZeroDenominatorDefaults ==
    (/\ calc.fn = "benford_law_analysis"
     /\ \A i \in 1..Len(calc.arg) : calc.arg[i] < 1)
    => ~calc.out.raised

\* C24: a technique given fewer groups or periods than its minimum returns an
\* explicit insufficient-data result and no number computed from a
\* substituted value; in particular scenario_planning on an enrolment table
\* of fewer than 2 months.
C24_InsufficientDataIsExplicit ==
    (/\ lastResp.kind = "technique"
     /\ lastResp.ep = "scenario_planning"
     /\ lastResp.status = 200
     /\ Len(pristine["enrolment"]) > 0
     /\ \A k \in 1..Len(pristine["enrolment"]) :
           /\ "date" \in pristine["enrolment"][k].cols
           /\ Cardinality(Months(pristine["enrolment"][k])) < 2)
    => (/\ lastResp.keys = {"error"}
        /\ lastResp.res.paths = {})

\* C25: once a handler has executed its first statement, no statement of
\* another request's handler runs before it has returned, the dataset load
\* included; so the table a handler is handed never has a part only of the
\* columns that pattern_recognition assigns.
C25_RunToCompletion ==
    /\ \A i, j \in 1..Len(loop.tasks) :
          (loop.tasks[i].pc > 0 /\ loop.tasks[j].pc > 0) => i = j
    /\ \A i \in 1..Len(loop.tasks) : loop.tasks[i].pc > 0 => loop.current = i
    /\ \A i \in 1..Len(loop.tasks) :
          Cardinality(loop.tasks[i].seen \cap SeqToSet(PatternColumns)) \in {0, Len(PatternColumns)}

\* pattern_recognition has assigned two of its four columns while another
\* request's get_fraud waits for the loop.
C25_OtherRequestWaitsMidWork ==
    \E i, j \in 1..Len(loop.tasks) :
        /\ loop.tasks[i].name = "pattern_recognition"
        /\ loop.tasks[i].pc = 3
        /\ loop.tasks[j].name = "get_fraud"
        /\ loop.tasks[j].pc = 0
        /\ Cardinality(heap["enrolment"][loop.tasks[i].ref].cols \cap SeqToSet(PatternColumns)) = 2

\* C26: for every set of durations the reported median_survival_days is the
\* smallest event time t with S(t) <= 0.5, also when S is at most 0.5 at the
\* first event time.
C26_MedianIsFirstAtMostHalf ==
    (calc.fn = "survival_analysis" /\ Len(calc.arg) > 0) =>
        \E i \in 1..Len(calc.out.times) :
            /\ calc.out.median_survival_days = calc.out.times[i]
            /\ 2 * calc.out.survival_prob[i][1] <= calc.out.survival_prob[i][2]
            /\ \A k \in 1..(i - 1) :
                  2 * calc.out.survival_prob[k][1] > calc.out.survival_prob[k][2]

\* The top n of the loads hold at least 80% of their total.
TopHoldsEighty(loads, n) ==
    100 * SumSeq([i \in 1..n |-> Descending(loads)[i]]) >= 80 * SumSeq(loads)

\* C27: states_for_80_percent is the smallest number N of top-ranked states
\* whose cumulative share is at least 80%, and districts_for_80_percent
\* likewise, also when the cumulative share is exactly 80% at some rank.
C27_MinimalTopForEighty ==
    (calc.fn = "pareto_analysis" /\ SumSeq(calc.arg) > 0) =>
        /\ ~calc.out.raised
        /\ calc.out.states_for_80_percent \in 1..Len(calc.arg)
        /\ TopHoldsEighty(calc.arg, calc.out.states_for_80_percent)
        /\ ~TopHoldsEighty(calc.arg, calc.out.states_for_80_percent - 1)
        /\ calc.out.districts_for_80_percent = calc.out.states_for_80_percent

\* The records that share day, state, district and pincode with another one.
SharingDayAndPlace(df) ==
    {i \in 1..Len(df) : \E j \in 1..Len(df) :
        /\ j # i
        /\ df[j].date = df[i].date /\ df[j].state = df[i].state
        /\ df[j].district = df[i].district /\ df[j].pincode = df[i].pincode}

\* The groups of more than one record under (date, location, value signature).
GroupsOfSignature(df) ==
    {<<df[i].date, location_key(df[i]), value_signature(df[i])>> :
        i \in {j \in 1..Len(df) : \E k \in 1..Len(df) :
                  /\ k # j
                  /\ df[k].date = df[j].date
                  /\ location_key(df[k]) = location_key(df[j])
                  /\ value_signature(df[k]) = value_signature(df[j])}}

\* C28 as stated: the risk follows from the duplicate rate alone (HIGH above
\* 5%, MEDIUM above 1% up to 5%, LOW otherwise), and the rate counts the
\* groups of more than one record under (date, location, value signature).
C28_RiskByRateOfSignatureGroups ==
    calc.fn = "duplicate_detection" =>
        /\ calc.out.risk_classification =
              duplicate_risk_rate_alone(calc.out.multi_entry_records, calc.out.total_records, 0)
        /\ calc.out.multi_entry_records = Cardinality(GroupsOfSignature(calc.arg))

\* C28, amended: the rate counts the records that share day and place
\* (state, district, pincode) with another record; the risk is HIGH exactly
\* when the rate is above 5% or more than 100 groups of more than one dated
\* record share (date, state, district, value signature), MEDIUM exactly
\* when it is not HIGH and the rate is above 1% or there are more than 20
\* such groups, LOW otherwise.
C28_RiskByRateOrExactDuplicates ==
    calc.fn = "duplicate_detection" =>
        LET m == Cardinality(SharingDayAndPlace(calc.arg))
            n == Len(calc.arg)
            exact == calc.out.exact_duplicate_sets
            risk == calc.out.risk_classification
        IN /\ calc.out.multi_entry_records = m
           /\ calc.out.total_records = n
           /\ risk \in {"HIGH", "MEDIUM", "LOW"}
           /\ risk = "HIGH" <=> (100 * m > 5 * n \/ exact > 100)
           /\ risk = "MEDIUM" <=> (~(100 * m > 5 * n \/ exact > 100) /\ (100 * m > n \/ exact > 20))

\* 21 groups of exact duplicates among records that share no day and place.
C28_ExactDuplicatesOnly ==
    /\ calc.fn = "duplicate_detection"
    /\ calc.out.multi_entry_records = 0
    /\ calc.out.exact_duplicate_sets = 21
    /\ calc.out.risk_classification = "MEDIUM"

\* observed = a + b + c, for an integer and three floats.
IsSumOf(observed, a, b, c) ==
    observed * a[2] * b[2] * c[2] = a[1] * b[2] * c[2] + b[1] * a[2] * c[2] + c[1] * a[2] * b[2]

\* C29: on every date of the visualization_data of time_series_decomposition,
\* observed = trend + seasonality + residuals, also on the dates at the two
\* ends of the series where the centred 30-day window is incomplete.
C29_ObservedIsSumOfComponents ==
    (calc.fn = "time_series_decomposition" /\ ~calc.out.raised) =>
        \A i \in 1..Len(calc.arg) :
            IsSumOf(calc.out.observed[i], calc.out.trend[i], calc.out.seasonality[i],
                    calc.out.residuals[i])

\* The order in which load_all_data() calls the loaders, and the tables it
\* calls up to and including t.
LoadOrder == <<"enrolment", "demographic", "biometric">>
UpTo(t) == {LoadOrder[i] : i \in {j \in 1..3 : \E k \in j..3 : LoadOrder[k] = t}}
LoadRaises(t) == LoadBody(t, files[t]).raised

\* The techniques whose first statement calls load_enrolment_data(), directly
\* or through load_all_data(); gender_parity_analysis calls no loader.
LoadsEnrolmentFirst == Techniques \ {"gender_parity_analysis"}

\* C30: a failed load is not memoized.  A step in which a table's load would
\* raise stores no entry for it; a loader call that returns while the entry is
\* empty has executed the load and memoized its table; an entry once stored
\* stays, also when a later table of the same load_all_data() call raises; the
\* pre-load memoizes exactly the tables before the first that raises; and a
\* technique that loads the enrolment table, called while its entry is empty,
\* executes the load again: it is answered 500 while the files are missing and memoizes the
\* table once they are present.
C30_FailedLoadNotMemoized ==
    [][/\ \A t \in TableIds :
            /\ (cache[t] = 0 /\ LoadRaises(t)) =>
                  (cache'[t] = 0 /\ loadExec'[t] = loadExec[t] /\ handed'[t] = handed[t])
            /\ (cache[t] = 0 /\ handed'[t] # handed[t]) =>
                  /\ ~LoadRaises(t)
                  /\ loadExec'[t] = loadExec[t] + 1
                  /\ cache'[t] = Len(heap'[t])
                  /\ pristine'[t][cache'[t]] = LoadBody(t, files[t]).df
            /\ cache[t] # 0 => cache'[t] = cache[t]
       /\ (phase = "startup" /\ phase' = "serving") =>
            /\ \A t \in TableIds : cache'[t] # 0 <=> (\A u \in UpTo(t) : ~LoadRaises(u))
            /\ allCache' # NoDict <=> (\A u \in TableIds : ~LoadRaises(u))
       /\ (/\ HandlerRan
           /\ lastResp'.kind = "technique" /\ lastResp'.ep \in LoadsEnrolmentFirst
           /\ cache["enrolment"] = 0) =>
            IF LoadRaises("enrolment")
            THEN lastResp'.status = 500 /\ cache'["enrolment"] = 0
            ELSE cache'["enrolment"] # 0 /\ loadExec'["enrolment"] = loadExec["enrolment"] + 1
      ]_vars

\* The pre-load raised at a table whose folder had no files, after it had
\* memoized the tables before it; the files were installed, and a later
\* request loaded and memoized that table.
C30_LoadedAfterFailedPreload ==
    /\ phase = "serving"
    /\ allCache = NoDict
    /\ \A t \in TableIds : cache[t] # 0 /\ loadExec[t] = 1
    /\ lastResp.kind = "technique" /\ lastResp.ep = "yield_analysis"

====
